---- MODULE Spec2Model ----
(***************************************************************************)
(* Vision-PRO: camera stream lifecycle and detection event pipeline.       *)
(*                                                                         *)
(*   StreamManager / CameraStream  (app/services/stream_manager.py)        *)
(*   ConnectionManager             (app/core/websocket.py)                 *)
(*   DetectionWorker               (app/workers/yolo_worker.py)            *)
(*   DeepStreamBridge              (app/deepstream/bridge.py)              *)
(*   DeepStreamReceiver            (app/deepstream/receiver.py)            *)
(*   LLMService                    (app/services/llm_service.py)           *)
(*                                                                         *)
(* Everything runs on one asyncio event loop: a coroutine runs without     *)
(* interruption from one await to the next, so every action below is the   *)
(* code between two consecutive awaits of one coroutine.  Blocking calls   *)
(* run in worker threads (asyncio.to_thread); a worker thread is not       *)
(* stopped when the task awaiting it is cancelled.                         *)
(***************************************************************************)
EXTENDS Integers, Sequences, FiniteSets, TLC

(***************************************************************************)
(* Bounds of the model.                                                    *)
(***************************************************************************)
RegCams == 2
RegSups == 2
RegLog == 1
RegFrames == 1
SupLog == 7
SupFrames == 2
NumCallers == 2
NumChannels == 2
NumSockets == 3
NumPubs == 2
MaxMsgs == 2
NumWCams == 2
MaxEvents == 2
FairEvents == 1
FairCams == 1
FairTime == 5
MaxTime == 15
MaxConf == 2
MaxBoxes == 2
MaxSent == 3
BridgeSent == 2
FairSent == 2
ChanCap == 1
NumUrls == 2
NumFps == 2
StopSups == 2
MaxStarts == 2
CfgSups == 1
PubFrames == 3
PubLog == 2
PollCams == 2
ApiCams == 2

CameraIds == 1..RegCams
SupIds == 1..RegSups
Callers == 1..NumCallers
Channels == 1..NumChannels
Sockets == 1..NumSockets
Pubs == 1..NumPubs
WCamIds == 1..NumWCams

(***************************************************************************)
(* Program constants of CameraStream._run_loop.                            *)
(***************************************************************************)
INITIAL_BACKOFF == 2
MAX_BACKOFF == 30

\* settings.EVENT_COOLDOWN_SECONDS
EVENT_COOLDOWN_SECONDS == 15

\* The steps by which the clock time.time() is advanced, in seconds.
TickSteps == {5, 15}

Min(a, b) == IF a <= b THEN a ELSE b

VARIABLES
    limits,          \* bounds of the run: cams, sups, log, frames, events, sent, msgs, ...
    streams,         \* StreamManager._streams: camera id -> supervisor (0 = absent)
    nSup,            \* number of CameraStream objects constructed so far
    camera_id,       \* CameraStream.camera_id
    running,         \* CameraStream._running
    task,            \* position of the task CameraStream._task ("none" = no task)
    cancelReq,       \* Task.cancel() was called and CancelledError is not yet raised
    thread,          \* the blocking call this supervisor has in a worker thread
    cap,             \* CameraStream._cap holds an open VideoCapture
    leaked,          \* VideoCaptures opened for this supervisor and held by nobody
    latest_raw,      \* CameraStream._latest_raw   (frame number, 0 = None)
    latest_frame,    \* CameraStream._latest_frame (frame number, 0 = None)
    nFrames,         \* frames this supervisor has read
    backoff,         \* the local variable backoff of _run_loop
    connected,       \* health.connected
    error_count,     \* health.error_count
    reconnect_count, \* health.reconnect_count
    log,             \* history: backoff delays slept, 0 marks a successful connect
    stopped,         \* history: CameraStream.stop() has returned
    cpc,             \* API caller position: "idle", "stop", "restart"
    cSup,            \* the supervisor whose stop() the caller awaits
    cCam,            \* the camera id of the caller's restart_stream
    ret,             \* the supervisor the last start_stream returned (0: none)
    rtsp_url,        \* CameraStream.rtsp_url
    target_fps,      \* CameraStream.target_fps
    cUrl,            \* rtsp_url of the caller's restart_stream
    cFps,            \* fps of the caller's restart_stream
    call,            \* history: the last start_stream or restart_stream that returned
    saTodo,          \* stop_all: the part of camera_ids the for loop has yet to visit
    saAt,            \* history: the supervisors in _streams when stop_all was called
    saEnd,           \* history: how the caller's stop_all ended
    start_time,      \* CameraStream._start_time, as the number of the start() that set it
    otask,           \* position of the task that start() replaced in _task while it was alive
    othread,         \* the blocking call that task has in a worker thread
    cGen,            \* the start() that created the task the caller's stop() awaits
    sop,             \* history: what the last start() or stop() on the supervisor did
    published,       \* history: the frames given to broadcast_bytes, in call order
    inflight,        \* the frames whose broadcast_bytes has not returned
    cameras,         \* cameras_collection(): the document of each camera id
    last_event_time, \* CooldownTracker.last_event_time of each camera's tracker
    ct_call,         \* history: the last call of can_trigger and the tables before it
    api              \* position of the route handler of routes/cameras.py that runs

dbVars == <<cameras, api>>

trackVars == <<last_event_time, ct_call>>

cfgVars == <<rtsp_url, target_fps, cUrl, cFps, call, start_time>>

lifeVars == <<otask, othread, cGen, sop>>

pubVars == <<published, inflight>>

shutVars == <<saTodo, saAt, saEnd>>

streamVars == <<limits, streams, nSup, camera_id, running, task, cancelReq, thread,
                cap, leaked, latest_raw, latest_frame, nFrames, backoff, connected,
                error_count, reconnect_count, log, stopped, cpc, cSup, cCam, ret,
                cfgVars, shutVars, lifeVars, pubVars, dbVars, trackVars>>

VARIABLES
    connections,     \* ConnectionManager._connections: channel -> set of sockets
    wsState,         \* route handler of a socket: "new", "open", "closed"
    wsChan,          \* the channel the socket's route handler connected it to
    inbox,           \* messages the socket's send has delivered, in order
    nMsg,            \* number of broadcasts begun (the id of the last message)
    ppc,             \* publisher position: "idle" or "sending" (inside the for)
    pch,             \* channel of the publisher's broadcast
    pmsg,            \* data of the publisher's broadcast
    snapshot,        \* the local set connections of the broadcast
    todo,            \* members of the local set the for loop has yet to visit
    dead,            \* the local list dead
    completed,       \* history: the publisher's last broadcast has returned
    finishedAt,      \* history: nMsg when the last broadcast returned
    prunedBy,        \* history: sockets the current broadcast has discarded
    sendq            \* the publishers whose send on the socket has not returned, in call order

hubVars == <<connections, wsState, wsChan, inbox, nMsg, ppc, pch, pmsg, snapshot,
             todo, dead, completed, finishedAt, prunedBy, sendq>>

VARIABLES
    w_running,       \* DetectionWorker._running
    wtask,           \* position of the task DetectionWorker._task
    wCancelReq,      \* Task.cancel() was called and CancelledError is not yet raised
    stopCalled,      \* history: DetectionWorker.stop() was called
    idx,             \* index in cameras of the camera the for loop is at
    cur,             \* cam_id, mapped category, highest_conf_class, face_id
    events,          \* the documents inserted into events_collection, in order
    cooldowns,       \* DetectionWorker.cooldowns: cameras that have a tracker
    now,             \* the clock
    visited,         \* history: cameras the for loop of this cycle has reached
    cycleCams,       \* history: cameras the query of this cycle returned
    last,            \* history: how the last detection's processing went
    errSeen,         \* history: the loop has caught an exception
    notif            \* position of the notification task of the i-th event

workerVars == <<w_running, wtask, wCancelReq, stopCalled, idx, cur, events,
                cooldowns, now, visited, cycleCams, last, errSeen, notif>>

VARIABLES
    f_threshold,     \* detection_config.confidence_threshold of the camera
    f_classes,       \* detection_config.detection_classes of the camera
    f_boxes,         \* result.boxes: the detections of one inference result
    f_out            \* what _process_results did with the result

filterVars == <<f_threshold, f_classes, f_boxes, f_out>>

VARIABLES
    chan,            \* the bounded channel between the PUSH and the PULL socket
    nSent,           \* number of messages handed to a socket's send
    sendBlocked,     \* the producer is inside sock.send waiting for room
    droppedIds,      \* history: messages whose send raised zmq.Again
    r_running,       \* DeepStreamReceiver._running
    rtask,           \* position of the task DeepStreamReceiver._task
    rCancelReq,      \* Task.cancel() was called and CancelledError is not yet raised
    rStopCalled,     \* history: DeepStreamReceiver.stop() was called
    taken,           \* history: the messages recv() has returned, in order
    rlast,           \* history: how the last receive attempt ended
    rpublished,      \* history: the calls of ws_manager.broadcast_bytes
    handlers,        \* the _handle_detections tasks: message id -> position
    handed,          \* history: messages that reached the event construction
    rstop,           \* position of the caller of DeepStreamReceiver.stop
    r_sock           \* DeepStreamReceiver._sock and _ctx: "none", "open", "closed"

bridgeVars == <<chan, nSent, sendBlocked, droppedIds, r_running, rtask, rCancelReq,
                rStopCalled, taken, rlast, rpublished, handlers, handed,
                rstop, r_sock>>

vars == <<streamVars, hubVars, workerVars, filterVars, bridgeVars>>

(***************************************************************************)
(* CameraStream                                                            *)
(***************************************************************************)

\* The await points of _run_loop (and of _read_loop, which it calls) that lie
\* inside its try block: a CancelledError raised there is caught at line 133.
InTry == {"connecting", "backoff_sleep", "reading", "encoding", "publishing",
          "throttle_sleep"}

Live(s) == task[s] \notin {"none", "done"}

NextBackoff_uncapped(b) == b * 2

\* min(backoff * 2, 30.0)
NextBackoff(b) == Min(b * 2, MAX_BACKOFF)

BackoffAfterConnect_kept(b) == b

\* backoff = 2.0 after a successful connect
BackoffAfterConnect(b) == INITIAL_BACKOFF

CanLog(s) == Len(log[s]) < limits.log

\* The task that start() replaced in _task has not ended.  Its cancellation
\* was requested before the start() that replaced it, so the event loop
\* resumes it before the first step of the task that start() created.
OrphanLive(s) == otask[s] \notin {"none", "done"}

\* What the last start_stream or restart_stream that has returned has
\* returned: whether this call constructed the supervisor, whether the
\* supervisor's rtsp_url and target_fps are the arguments of the call, and
\* whether the supervisor's health was as __init__ leaves it.
NoCall == [op |-> "none", new |-> FALSE, match |-> FALSE, fresh |-> FALSE]

\* StreamHealth(camera_id=camera_id) as CameraStream.__init__ leaves it
Fresh(s) ==
    /\ ~connected[s]
    /\ error_count[s] = 0
    /\ reconnect_count[s] = 0
    /\ latest_frame[s] = 0

\* No CameraStream is constructed yet.
StreamInit ==
    /\ nSup = 0
    /\ streams = [c \in CameraIds |-> 0]
    /\ camera_id = [s \in SupIds |-> 0]
    /\ running = [s \in SupIds |-> FALSE]
    /\ task = [s \in SupIds |-> "none"]
    /\ cancelReq = [s \in SupIds |-> FALSE]
    /\ thread = [s \in SupIds |-> "none"]
    /\ cap = [s \in SupIds |-> FALSE]
    /\ leaked = [s \in SupIds |-> 0]
    /\ latest_raw = [s \in SupIds |-> 0]
    /\ latest_frame = [s \in SupIds |-> 0]
    /\ nFrames = [s \in SupIds |-> 0]
    /\ backoff = [s \in SupIds |-> 0]
    /\ connected = [s \in SupIds |-> FALSE]
    /\ error_count = [s \in SupIds |-> 0]
    /\ reconnect_count = [s \in SupIds |-> 0]
    /\ log = [s \in SupIds |-> <<>>]
    /\ stopped = [s \in SupIds |-> FALSE]
    /\ cpc = [k \in Callers |-> "idle"]
    /\ cSup = [k \in Callers |-> 0]
    /\ cCam = [k \in Callers |-> 0]
    /\ ret = 0
    /\ rtsp_url = [s \in SupIds |-> 0]
    /\ target_fps = [s \in SupIds |-> 0]
    /\ cUrl = [k \in Callers |-> 0]
    /\ cFps = [k \in Callers |-> 0]
    /\ call = NoCall
    /\ saTodo = [k \in Callers |-> <<>>]
    /\ saAt = [k \in Callers |-> {}]
    /\ saEnd = [k \in Callers |-> "none"]
    /\ start_time = [s \in SupIds |-> 0]
    /\ otask = [s \in SupIds |-> "none"]
    /\ othread = [s \in SupIds |-> "none"]
    /\ cGen = [k \in Callers |-> 0]
    /\ sop = [s \in SupIds |-> "none"]
    /\ published = [s \in SupIds |-> <<>>]
    /\ inflight = [s \in SupIds |-> {}]

\* Camera document: enabled, and detection_config.object_detection and
\* detection_config.face_detection.
Camera(e, o, f) ==
    [exists |-> TRUE, enabled |-> e, object_detection |-> o, face_detection |-> f]

\* No document with the camera id.
NoCamera ==
    [exists |-> FALSE, enabled |-> FALSE, object_detection |-> FALSE,
     face_detection |-> FALSE]

\* Every camera has a document with the defaults of CameraBase and
\* DetectionConfig: enabled, object detection on, face detection off.
\* No route handler runs.
NoRequest == [pc |-> "idle", cam |-> 0, enabled |-> "unset"]

DbInit ==
    /\ cameras = [c \in CameraIds |-> Camera(TRUE, TRUE, FALSE)]
    /\ api = NoRequest

\* The categories a tracker is asked about.
TriggerKeys == {"person", "vehicle"}

\* The cooldown windows a tracker is asked about, in seconds.
Windows == {5, EVENT_COOLDOWN_SECONDS}

\* CooldownTracker(): last_event_time is an empty dict.
EmptyTables == [c \in CameraIds |-> [k \in {} |-> 0]]

NoTrigger ==
    [cam |-> 0, key |-> "none", secs |-> 0, t |-> 0, ret |-> FALSE,
     before |-> EmptyTables]

TrackInit ==
    /\ last_event_time = EmptyTables
    /\ ct_call = NoTrigger

\* self.last_event_time.get(class_name, 0.0)
last_of(table, class_name) ==
    IF class_name \in DOMAIN table THEN table[class_name] ELSE 0

can_trigger_strict(table, class_name, cooldown_secs, t) ==
    IF (t - last_of(table, class_name)) > cooldown_secs
    THEN [ret |-> TRUE,
          table |-> [k \in DOMAIN table \cup {class_name} |->
                        IF k = class_name THEN t ELSE table[k]]]
    ELSE [ret |-> FALSE, table |-> table]

\* CooldownTracker.can_trigger at time t: what it returns and the table it
\* leaves.
can_trigger(table, class_name, cooldown_secs, t) ==
    IF (t - last_of(table, class_name)) >= cooldown_secs
    THEN [ret |-> TRUE,
          table |-> [k \in DOMAIN table \cup {class_name} |->
                        IF k = class_name THEN t ELSE table[k]]]
    ELSE [ret |-> FALSE, table |-> table]

\* The top of "while self._running" in _run_loop: _connect releases the old
\* capture and opens the URL in a worker thread; when _running is false the
\* loop ends and line 144 releases the capture.
LoopTop(s) ==
    /\ cap' = [cap EXCEPT ![s] = FALSE]
    /\ IF running[s]
       THEN /\ task' = [task EXCEPT ![s] = "connecting"]
            /\ thread' = [thread EXCEPT ![s] = "open"]
       ELSE /\ task' = [task EXCEPT ![s] = "done"]
            /\ thread' = [thread EXCEPT ![s] = "none"]

\* The condition of the while of _read_loop, opened being the answer of
\* _cap.isOpened(): read the next frame in a worker
\* thread, or return to _run_loop, which connects again.
ReadLoopTop(s, opened) ==
    IF running[s] /\ opened
    THEN /\ task' = [task EXCEPT ![s] = "reading"]
         /\ thread' = [thread EXCEPT ![s] = "read"]
         /\ UNCHANGED cap
    ELSE LoopTop(s)

AfterStreamError_escapes == "done"

\* "except Exception as e" of _run_loop (line 135) catches what the try
\* block raises and the task sleeps (line 140) before the loop goes on.
AfterStreamError == "err_sleep"

\* "except Exception" of _run_loop up to its await asyncio.sleep(backoff)
OnStreamError(s) ==
    /\ CanLog(s)
    /\ connected' = [connected EXCEPT ![s] = FALSE]
    /\ error_count' = [error_count EXCEPT ![s] = @ + 1]
    /\ log' = [log EXCEPT ![s] = Append(@, backoff[s])]
    /\ task' = [task EXCEPT ![s] = AfterStreamError]
    /\ thread' = [thread EXCEPT ![s] = "none"]

\* The task's first step: backoff = 2.0, then the loop.
TaskBegin(s) ==
    /\ task[s] = "start" /\ ~cancelReq[s]
    /\ ~OrphanLive(s)
    /\ backoff' = [backoff EXCEPT ![s] = INITIAL_BACKOFF]
    /\ LoopTop(s)
    /\ UNCHANGED <<hubVars, workerVars, filterVars, bridgeVars, dbVars, trackVars, cfgVars, shutVars, pubVars, lifeVars, limits, streams, nSup, camera_id, running, cancelReq, leaked,
                   latest_raw, latest_frame, nFrames, connected, error_count,
                   reconnect_count, log, stopped, cpc, cSup, cCam, ret>>

\* The worker thread of _connect has finished and the task resumes.
ConnectDone(s, r) ==
    /\ task[s] = "connecting" /\ ~cancelReq[s]
    /\ CASE r = "ok" ->
              /\ CanLog(s)
              /\ cap' = [cap EXCEPT ![s] = TRUE]
              /\ backoff' = [backoff EXCEPT ![s] = BackoffAfterConnect(@)]
              /\ connected' = [connected EXCEPT ![s] = TRUE]
              /\ log' = [log EXCEPT ![s] = Append(@, 0)]
              /\ task' = [task EXCEPT ![s] = "reading"]
              /\ thread' = [thread EXCEPT ![s] = "read"]
              /\ UNCHANGED error_count
         [] r = "fail" ->
              /\ CanLog(s)
              /\ error_count' = [error_count EXCEPT ![s] = @ + 1]
              /\ log' = [log EXCEPT ![s] = Append(@, backoff[s])]
              /\ task' = [task EXCEPT ![s] = "backoff_sleep"]
              /\ thread' = [thread EXCEPT ![s] = "none"]
              /\ UNCHANGED <<cap, backoff, connected>>
         [] r = "raise" ->
              /\ OnStreamError(s)
              /\ UNCHANGED <<cap, backoff>>
    /\ UNCHANGED <<hubVars, workerVars, filterVars, bridgeVars, dbVars, trackVars, cfgVars, shutVars, pubVars, lifeVars, limits, streams, nSup, camera_id, running, cancelReq, leaked,
                   latest_raw, latest_frame, nFrames, reconnect_count, stopped,
                   cpc, cSup, cCam, ret>>

reconnected_uncounted(n) == n

\* self.health.reconnect_count += 1 after the sleep (lines 121 and 142)
reconnected(n) == n + 1

\* asyncio.sleep(backoff) of line 119 or of line 140 is over.
BackoffWake(s) ==
    /\ task[s] \in {"backoff_sleep", "err_sleep"} /\ ~cancelReq[s]
    /\ backoff' = [backoff EXCEPT ![s] = NextBackoff(@)]
    /\ reconnect_count' = [reconnect_count EXCEPT ![s] = reconnected(@)]
    /\ LoopTop(s)
    /\ UNCHANGED <<hubVars, workerVars, filterVars, bridgeVars, dbVars, trackVars, cfgVars, shutVars, pubVars, lifeVars, limits, streams, nSup, camera_id, running, cancelReq, leaked,
                   latest_raw, latest_frame, nFrames, connected, error_count, log,
                   stopped, cpc, cSup, cCam, ret>>

\* The worker thread of _cap.read has finished and the task resumes.
ReadDone(s, r) ==
    /\ task[s] = "reading" /\ ~cancelReq[s]
    /\ CASE r = "frame" ->
              /\ nFrames[s] < limits.frames
              /\ nFrames' = [nFrames EXCEPT ![s] = @ + 1]
              /\ latest_raw' = [latest_raw EXCEPT ![s] = nFrames[s] + 1]
              /\ task' = [task EXCEPT ![s] = "encoding"]
              /\ thread' = [thread EXCEPT ![s] = "encode"]
              /\ UNCHANGED <<cap, connected, error_count, log>>
         [] r = "fail" ->
              /\ connected' = [connected EXCEPT ![s] = FALSE]
              /\ LoopTop(s)
              /\ UNCHANGED <<nFrames, latest_raw, error_count, log>>
         [] r = "raise" ->
              /\ OnStreamError(s)
              /\ UNCHANGED <<cap, nFrames, latest_raw>>
    /\ UNCHANGED <<hubVars, workerVars, filterVars, bridgeVars, dbVars, trackVars, cfgVars, shutVars, pubVars, lifeVars, limits, streams, nSup, camera_id, running, cancelReq, leaked,
                   latest_frame, backoff, reconnect_count, stopped, cpc, cSup,
                   cCam, ret>>

\* The rest of one pass of the read loop after the frame was handled: the
\* throttle sleep when sleep_time > 0, the next pass otherwise.
AfterFrame(s, sleep, opened) ==
    IF sleep
    THEN /\ task' = [task EXCEPT ![s] = "throttle_sleep"]
         /\ thread' = [thread EXCEPT ![s] = "none"]
         /\ UNCHANGED cap
    ELSE ReadLoopTop(s, opened)

broadcast_bytes_detached(s) ==
    \E sleep, opened \in BOOLEAN : AfterFrame(s, sleep, opened)

\* "await ws_manager.broadcast_bytes(channel, jpeg)" (line 191): the task
\* goes on when the broadcast has returned.
broadcast_bytes(s) ==
    /\ task' = [task EXCEPT ![s] = "publishing"]
    /\ thread' = [thread EXCEPT ![s] = "none"]
    /\ UNCHANGED cap

\* The worker thread of _encode_jpeg has finished and the task resumes.
EncodeDone(s, r) ==
    /\ task[s] = "encoding" /\ ~cancelReq[s]
    /\ CASE r = "jpeg" ->
              /\ latest_frame' = [latest_frame EXCEPT ![s] = latest_raw[s]]
              /\ published' = [published EXCEPT ![s] = Append(@, latest_raw[s])]
              /\ inflight' = [inflight EXCEPT ![s] = @ \cup {latest_raw[s]}]
              /\ broadcast_bytes(s)
              /\ UNCHANGED <<connected, error_count, log>>
         [] r = "none" ->
              /\ \E sleep, opened \in BOOLEAN : AfterFrame(s, sleep, opened)
              /\ UNCHANGED <<latest_frame, connected, error_count, log, pubVars>>
         [] r = "raise" ->
              /\ OnStreamError(s)
              /\ UNCHANGED <<cap, latest_frame, pubVars>>
    /\ UNCHANGED <<hubVars, workerVars, filterVars, bridgeVars, dbVars, trackVars, cfgVars, shutVars, lifeVars, limits, streams, nSup, camera_id, running, cancelReq, leaked,
                   latest_raw, nFrames, backoff, reconnect_count, stopped, cpc,
                   cSup, cCam, ret>>

\* ws_manager.broadcast_bytes has returned (it catches the send errors).
PublishDone(s) ==
    /\ task[s] = "publishing" /\ ~cancelReq[s]
    /\ inflight' = [inflight EXCEPT ![s] = {}]
    /\ \E sleep, opened \in BOOLEAN : AfterFrame(s, sleep, opened)
    /\ UNCHANGED <<published, hubVars, workerVars, filterVars, bridgeVars, dbVars, trackVars, cfgVars, shutVars, lifeVars, limits, streams, nSup, camera_id, running, cancelReq, leaked,
                   latest_raw, latest_frame, nFrames, backoff, connected,
                   error_count, reconnect_count, log, stopped, cpc, cSup, cCam,
                   ret>>

\* asyncio.sleep(sleep_time) of line 205 is over.
ThrottleWake(s) ==
    /\ task[s] = "throttle_sleep" /\ ~cancelReq[s]
    /\ \E opened \in BOOLEAN : ReadLoopTop(s, opened)
    /\ UNCHANGED <<hubVars, workerVars, filterVars, bridgeVars, dbVars, trackVars, cfgVars, shutVars, pubVars, lifeVars, limits, streams, nSup, camera_id, running, cancelReq, leaked,
                   latest_raw, latest_frame, nFrames, backoff, connected,
                   error_count, reconnect_count, log, stopped, cpc, cSup, cCam,
                   ret>>

\* The task resumes with CancelledError.  Inside the try block line 133
\* catches it, the loop breaks and line 144 releases the capture; in the
\* sleep of the except block (line 140), or before the task's first step,
\* the task just ends.  The worker thread, if any, runs on.
CancelDeliver(s) ==
    /\ cancelReq[s] /\ Live(s)
    /\ cancelReq' = [cancelReq EXCEPT ![s] = FALSE]
    /\ task' = [task EXCEPT ![s] = "done"]
    /\ cap' = [cap EXCEPT ![s] = IF task[s] \in InTry THEN FALSE ELSE @]
    /\ inflight' = [inflight EXCEPT ![s] = IF task[s] = "publishing" THEN {} ELSE @]
    /\ UNCHANGED <<published, hubVars, workerVars, filterVars, bridgeVars, dbVars, trackVars, cfgVars, shutVars, lifeVars, limits, streams, nSup, camera_id, running, thread, leaked,
                   latest_raw, latest_frame, nFrames, backoff, connected,
                   error_count, reconnect_count, log, stopped, cpc, cSup, cCam,
                   ret>>

\* A worker thread whose task was cancelled finishes: its result is dropped.
\* A VideoCapture that _open opened is then referenced by no CameraStream.
ThreadExit(s, opened) ==
    /\ task[s] = "done" /\ thread[s] # "none"
    /\ thread' = [thread EXCEPT ![s] = "none"]
    /\ leaked' = [leaked EXCEPT ![s] = IF thread[s] = "open" /\ opened THEN @ + 1 ELSE @]
    /\ UNCHANGED <<hubVars, workerVars, filterVars, bridgeVars, dbVars, trackVars, cfgVars, shutVars, pubVars, lifeVars, limits, streams, nSup, camera_id, running, task, cancelReq, cap,
                   latest_raw, latest_frame, nFrames, backoff, connected,
                   error_count, reconnect_count, log, stopped, cpc, cSup, cCam,
                   ret>>

\* CameraStream.get_raw_frame and CameraStream.get_snapshot
get_raw_frame(s) == latest_raw[s]

get_snapshot(s) == latest_frame[s]

\* "if self._running: return" of CameraStream.start
start_returns(s) == running[s]

\* CameraStream.start called on a supervisor that exists.  When _running is
\* false a task is created and _task refers to it; the task _task referred
\* to, if it has not ended, lives on with its cancellation pending.
SupStart(s) ==
    /\ s \in 1..nSup
    /\ IF start_returns(s)
       THEN /\ sop' = [sop EXCEPT ![s] = "start_noop"]
            /\ UNCHANGED <<running, start_time, task, cancelReq, thread, otask, othread>>
       ELSE /\ start_time[s] < MaxStarts
            /\ ~OrphanLive(s)
            /\ running' = [running EXCEPT ![s] = TRUE]
            /\ start_time' = [start_time EXCEPT ![s] = @ + 1]
            /\ task' = [task EXCEPT ![s] = "start"]
            /\ cancelReq' = [cancelReq EXCEPT ![s] = FALSE]
            /\ thread' = [thread EXCEPT ![s] = "none"]
            /\ otask' = [otask EXCEPT ![s] = IF Live(s) THEN task[s] ELSE "none"]
            /\ othread' = [othread EXCEPT ![s] = IF Live(s) THEN thread[s] ELSE "none"]
            /\ sop' = [sop EXCEPT ![s] = "start_new"]
    /\ UNCHANGED <<hubVars, workerVars, filterVars, bridgeVars, dbVars, trackVars, shutVars, pubVars, limits, streams,
                   nSup, camera_id, cap, leaked, latest_raw, latest_frame, nFrames,
                   backoff, connected, error_count, reconnect_count, log, stopped,
                   cpc, cSup, cCam, ret, rtsp_url, target_fps, cUrl, cFps, call, cGen>>

\* CameraStream.stop called on a supervisor that exists, up to its await;
\* with no task, or a task that has ended, stop runs to its end (lines 93-95).
SupStop(k, s) ==
    /\ cpc[k] = "idle"
    /\ s \in 1..nSup
    /\ running' = [running EXCEPT ![s] = FALSE]
    /\ sop' = [sop EXCEPT ![s] = "stop"]
    /\ IF Live(s)
       THEN /\ cancelReq' = [cancelReq EXCEPT ![s] = TRUE]
            /\ cpc' = [cpc EXCEPT ![k] = "sup_stop"]
            /\ cSup' = [cSup EXCEPT ![k] = s]
            /\ cGen' = [cGen EXCEPT ![k] = start_time[s]]
            /\ UNCHANGED <<cap, connected, stopped>>
       ELSE /\ cap' = [cap EXCEPT ![s] = FALSE]
            /\ connected' = [connected EXCEPT ![s] = FALSE]
            /\ stopped' = [stopped EXCEPT ![s] = TRUE]
            /\ UNCHANGED <<cancelReq, cpc, cSup, cGen>>
    /\ UNCHANGED <<hubVars, workerVars, filterVars, bridgeVars, dbVars, trackVars, cfgVars, shutVars, pubVars, limits,
                   streams, nSup, camera_id, task, thread, leaked, latest_raw,
                   latest_frame, nFrames, backoff, error_count, reconnect_count, log,
                   cCam, ret, otask, othread>>

\* The task that the caller's stop() awaits has ended: it is the one _task
\* refers to, or one that a later start() has replaced.
AwaitedTaskDone(k) ==
    LET s == cSup[k] IN
    \/ cGen[k] = start_time[s] /\ task[s] = "done"
    \/ cGen[k] < start_time[s] /\ ~OrphanLive(s)

\* The await of CameraStream.stop is over: lines 93-95.
SupStopReturn(k) ==
    /\ cpc[k] = "sup_stop"
    /\ AwaitedTaskDone(k)
    /\ cap' = [cap EXCEPT ![cSup[k]] = FALSE]
    /\ connected' = [connected EXCEPT ![cSup[k]] = FALSE]
    /\ stopped' = [stopped EXCEPT ![cSup[k]] = TRUE]
    /\ cpc' = [cpc EXCEPT ![k] = "idle"]
    /\ UNCHANGED <<hubVars, workerVars, filterVars, bridgeVars, dbVars, trackVars, cfgVars, shutVars, pubVars, lifeVars,
                   limits, streams, nSup, camera_id, running, task, cancelReq, thread,
                   leaked, latest_raw, latest_frame, nFrames, backoff, error_count,
                   reconnect_count, log, cSup, cCam, ret>>

\* The replaced task resumes with CancelledError, as in CancelDeliver: line
\* 144 releases self._cap when the task was inside the try block.
OrphanCancelDeliver(s) ==
    /\ OrphanLive(s)
    /\ otask' = [otask EXCEPT ![s] = "done"]
    /\ cap' = [cap EXCEPT ![s] = IF otask[s] \in InTry THEN FALSE ELSE @]
    /\ inflight' = [inflight EXCEPT ![s] = IF otask[s] = "publishing" THEN {} ELSE @]
    /\ UNCHANGED <<published, hubVars, workerVars, filterVars, bridgeVars, dbVars, trackVars, cfgVars, shutVars, limits,
                   streams, nSup, camera_id, running, task, cancelReq, thread, leaked,
                   latest_raw, latest_frame, nFrames, backoff, connected,
                   error_count, reconnect_count, log, stopped, cpc, cSup, cCam, ret,
                   othread, cGen, sop>>

\* The worker thread of the replaced task finishes, as in ThreadExit.
OrphanThreadExit(s, opened) ==
    /\ otask[s] = "done" /\ othread[s] # "none"
    /\ othread' = [othread EXCEPT ![s] = "none"]
    /\ leaked' = [leaked EXCEPT ![s] = IF othread[s] = "open" /\ opened THEN @ + 1 ELSE @]
    /\ UNCHANGED <<hubVars, workerVars, filterVars, bridgeVars, dbVars, trackVars, cfgVars, shutVars, pubVars, limits,
                   streams, nSup, camera_id, running, task, cancelReq, thread, cap,
                   latest_raw, latest_frame, nFrames, backoff, connected,
                   error_count, reconnect_count, log, stopped, cpc, cSup, cCam, ret,
                   otask, cGen, sop>>

(***************************************************************************)
(* StreamManager                                                           *)
(***************************************************************************)

is_streaming(c) == streams[c] # 0

\* CameraStream(camera_id, rtsp_url, target_fps=fps) and stream.start(), then
\* the insertion into _streams, of start_stream (lines 243-246); k is the
\* caller, op the method the caller called.
NewStream(k, c, u, f, op) ==
    /\ nSup < limits.sups
    /\ LET s == nSup + 1 IN
       /\ nSup' = s
       /\ camera_id' = [camera_id EXCEPT ![s] = c]
       /\ rtsp_url' = [rtsp_url EXCEPT ![s] = u]
       /\ target_fps' = [target_fps EXCEPT ![s] = f]
       /\ start_time' = [start_time EXCEPT ![s] = @ + 1]
       /\ running' = [running EXCEPT ![s] = TRUE]
       /\ task' = [task EXCEPT ![s] = "start"]
       /\ streams' = [streams EXCEPT ![c] = s]
       /\ ret' = s
       /\ call' = [op |-> op, new |-> TRUE, match |-> TRUE, fresh |-> Fresh(s)]

ReturnExisting_reconfigured(c, u, f, op) ==
    /\ ret' = streams[c]
    /\ rtsp_url' = [rtsp_url EXCEPT ![streams[c]] = u]
    /\ target_fps' = [target_fps EXCEPT ![streams[c]] = f]
    /\ call' = [op |-> op, new |-> FALSE, match |-> TRUE,
                fresh |-> Fresh(streams[c])]
    /\ UNCHANGED <<nSup, camera_id, running, task, streams, start_time>>

\* "if camera_id in self._streams: return self._streams[camera_id]" of
\* start_stream (lines 239-241): the arguments rtsp_url and fps are not used.
ReturnExisting(c, u, f, op) ==
    /\ ret' = streams[c]
    /\ call' = [op |-> op, new |-> FALSE,
                match |-> (rtsp_url[streams[c]] = u /\ target_fps[streams[c]] = f),
                fresh |-> Fresh(streams[c])]
    /\ UNCHANGED <<nSup, camera_id, running, task, streams, rtsp_url, target_fps,
                   start_time>>

\* The body of StreamManager.start_stream
start_stream(k, c, u, f, op) ==
    IF is_streaming(c)
    THEN ReturnExisting(c, u, f, op)
    ELSE NewStream(k, c, u, f, op)

\* StreamManager.start_stream
StartStreamCall(k, c, u, f) ==
    /\ cpc[k] = "idle"
    /\ start_stream(k, c, u, f, "start")
    /\ UNCHANGED <<hubVars, workerVars, filterVars, bridgeVars, trackVars, shutVars, pubVars, lifeVars, limits, cancelReq, thread, cap, leaked, latest_raw, latest_frame,
                   nFrames, backoff, connected, error_count, reconnect_count, log,
                   stopped, cpc, cSup, cCam, cUrl, cFps>>

\* start_stream called by a coroutine that leaves the documents alone
StartStream(k, c, u, f) ==
    /\ StartStreamCall(k, c, u, f)
    /\ UNCHANGED dbVars

pop_kept(c) == streams

\* self._streams.pop(camera_id, None) of stop_stream (line 250)
pop(c) == [streams EXCEPT ![c] = 0]

\* StreamManager.stop_stream up to the await in CameraStream.stop: the pop,
\* _running = False and the cancellation of the task.  The task of a stream
\* that is in _streams has not ended (it ends only through stop), so stop()
\* always cancels it and waits.  mode is "stop" for stop_stream and "restart"
\* for the stop_stream of restart_stream.
StopBegin(k, c, mode) ==
    /\ cpc[k] = "idle"
    /\ is_streaming(c)
    /\ LET s == streams[c] IN
       /\ streams' = pop(c)
       /\ running' = [running EXCEPT ![s] = FALSE]
       /\ Live(s)
       /\ cancelReq' = [cancelReq EXCEPT ![s] = TRUE]
       /\ cpc' = [cpc EXCEPT ![k] = mode]
       /\ cSup' = [cSup EXCEPT ![k] = s]
       /\ cCam' = [cCam EXCEPT ![k] = c]

\* StreamManager.stop_stream on a camera that is streaming
StopStreamCall(k, c) ==
    /\ StopBegin(k, c, "stop")
    /\ UNCHANGED <<hubVars, workerVars, filterVars, bridgeVars, trackVars, cfgVars, shutVars, pubVars, lifeVars, limits, nSup, camera_id, task, thread, cap, leaked, latest_raw,
                   latest_frame, nFrames, backoff, connected, error_count,
                   reconnect_count, log, stopped, ret>>

\* stop_stream called by a coroutine that leaves the documents alone
StopStream(k, c) ==
    /\ StopStreamCall(k, c)
    /\ UNCHANGED dbVars

\* StreamManager.stop_stream on a camera that is not streaming: pop gives None
StopAbsentCall(k, c) ==
    /\ cpc[k] = "idle"
    /\ ~is_streaming(c)
    /\ ret' = 0
    /\ UNCHANGED <<hubVars, workerVars, filterVars, bridgeVars, trackVars, cfgVars, shutVars, pubVars, lifeVars, limits, streams, nSup, camera_id, running, task, cancelReq,
                   thread, cap, leaked, latest_raw, latest_frame, nFrames, backoff,
                   connected, error_count, reconnect_count, log, stopped, cpc, cSup,
                   cCam>>

\* stop_stream on an absent camera, the documents left alone
StopAbsent(k, c) ==
    /\ StopAbsentCall(k, c)
    /\ UNCHANGED dbVars

\* StreamManager.restart_stream: stop_stream, then start_stream.  With no
\* stream to stop there is nothing to await and start_stream follows at once;
\* otherwise rtsp_url and fps are kept until the stop has returned.
RestartStreamCall(k, c, u, f) ==
    /\ IF is_streaming(c)
       THEN /\ StopBegin(k, c, "restart")
            /\ cUrl' = [cUrl EXCEPT ![k] = u]
            /\ cFps' = [cFps EXCEPT ![k] = f]
            /\ UNCHANGED <<nSup, camera_id, task, ret, rtsp_url, target_fps, call,
                           start_time>>
       ELSE /\ cpc[k] = "idle"
            /\ NewStream(k, c, u, f, "restart")
            /\ UNCHANGED <<cancelReq, cpc, cSup, cCam, cUrl, cFps>>
    /\ UNCHANGED <<hubVars, workerVars, filterVars, bridgeVars, trackVars, shutVars, pubVars, lifeVars, limits, thread, cap, leaked, latest_raw, latest_frame, nFrames,
                   backoff, connected, error_count, reconnect_count, log, stopped>>

\* restart_stream called by a coroutine that leaves the documents alone
RestartStream(k, c, u, f) ==
    /\ RestartStreamCall(k, c, u, f)
    /\ UNCHANGED dbVars

\* The awaited task is done: CameraStream.stop goes on (lines 93-95) with
\* _release_capture and health.connected = False, and stop_stream returns.
\* In restart_stream, start_stream follows without another await.
StopReturnCall(k) ==
    /\ cpc[k] \in {"stop", "restart"}
    /\ LET s == cSup[k] IN
       /\ task[s] = "done"
       /\ cap' = [cap EXCEPT ![s] = FALSE]
       /\ connected' = [connected EXCEPT ![s] = FALSE]
       /\ stopped' = [stopped EXCEPT ![s] = TRUE]
    /\ cpc' = [cpc EXCEPT ![k] = "idle"]
    /\ cUrl' = [cUrl EXCEPT ![k] = 0]
    /\ cFps' = [cFps EXCEPT ![k] = 0]
    /\ IF cpc[k] = "restart"
       THEN start_stream(k, cCam[k], cUrl[k], cFps[k], "restart")
       ELSE UNCHANGED <<nSup, camera_id, running, task, streams, ret, rtsp_url,
                        target_fps, call, start_time>>
    /\ UNCHANGED <<hubVars, workerVars, filterVars, bridgeVars, trackVars, shutVars, pubVars, lifeVars, limits, cancelReq, thread, leaked, latest_raw, latest_frame,
                   nFrames, backoff, error_count, reconnect_count, log, cSup, cCam>>

\* the caller goes on after the stop and leaves the documents alone
StopReturn(k) ==
    /\ StopReturnCall(k)
    /\ UNCHANGED dbVars

StreamCams == 1..limits.cams

\* list(self._streams.keys()): the ids in the order of their insertion, which
\* is the order in which their supervisors were constructed.
keys ==
    LET ids == {c \in StreamCams : is_streaming(c)} IN
    CHOOSE q \in [1..Cardinality(ids) -> ids] :
        \A i, j \in 1..Cardinality(ids) : i < j => streams[q[i]] < streams[q[j]]

\* The ids of q from the first one that regis holds: stop_stream on an id
\* that is absent returns without an await and the for loop goes on.
RECURSIVE FromFirstPresent(_, _)
FromFirstPresent(q, regis) ==
    IF q = <<>> \/ regis[Head(q)] # 0
    THEN q
    ELSE FromFirstPresent(Tail(q), regis)

\* The for loop of stop_all from the ids q on, up to the next await: the
\* stop_stream of the first id that is present pops it, clears _running and
\* cancels the task; with no such id stop_all returns.
StopAllLoop(k, q) ==
    LET rest == FromFirstPresent(q, streams) IN
    IF rest = <<>>
    THEN /\ cpc' = [cpc EXCEPT ![k] = "idle"]
         /\ saTodo' = [saTodo EXCEPT ![k] = <<>>]
         /\ saEnd' = [saEnd EXCEPT ![k] = "returned"]
         /\ UNCHANGED <<streams, running, cancelReq, cSup, cCam>>
    ELSE LET c == Head(rest)
             s == streams[c] IN
         /\ streams' = pop(c)
         /\ running' = [running EXCEPT ![s] = FALSE]
         /\ Live(s)
         /\ cancelReq' = [cancelReq EXCEPT ![s] = TRUE]
         /\ cpc' = [cpc EXCEPT ![k] = "stop_all"]
         /\ cSup' = [cSup EXCEPT ![k] = s]
         /\ cCam' = [cCam EXCEPT ![k] = c]
         /\ saTodo' = [saTodo EXCEPT ![k] = Tail(rest)]
         /\ saEnd' = [saEnd EXCEPT ![k] = "running"]

\* StreamManager.stop_all up to its first await
StopAll(k) ==
    /\ cpc[k] = "idle"
    /\ saAt' = [saAt EXCEPT ![k] = {streams[c] : c \in {d \in StreamCams : is_streaming(d)}}]
    /\ StopAllLoop(k, keys)
    /\ UNCHANGED <<hubVars, workerVars, filterVars, bridgeVars, dbVars, trackVars, cfgVars, lifeVars, pubVars, limits, nSup,
                   camera_id, task, thread, cap, leaked, latest_raw, latest_frame,
                   nFrames, backoff, connected, error_count, reconnect_count, log,
                   stopped, ret>>

\* The awaited task is done: CameraStream.stop goes on (lines 93-95), the
\* stop_stream of stop_all returns and the for loop takes the next id.
StopAllNext(k) ==
    /\ cpc[k] = "stop_all"
    /\ LET s == cSup[k] IN
       /\ task[s] = "done"
       /\ cap' = [cap EXCEPT ![s] = FALSE]
       /\ connected' = [connected EXCEPT ![s] = FALSE]
       /\ stopped' = [stopped EXCEPT ![s] = TRUE]
    /\ StopAllLoop(k, saTodo[k])
    /\ UNCHANGED <<hubVars, workerVars, filterVars, bridgeVars, dbVars, trackVars, cfgVars, lifeVars, pubVars, limits, nSup,
                   camera_id, task, thread, leaked, latest_raw, latest_frame,
                   nFrames, backoff, error_count, reconnect_count, log, ret, saAt>>

\* "await self._task" of CameraStream.stop raises what the task ended with
\* and it is not CancelledError: the only handler of stop (line 91) does not
\* catch it, stop_stream has no handler and stop_all has none, so the
\* exception leaves stop_all and the rest of camera_ids is not visited.
StopAllRaise(k) ==
    /\ cpc[k] = "stop_all"
    /\ task[cSup[k]] = "done"
    /\ cpc' = [cpc EXCEPT ![k] = "idle"]
    /\ saEnd' = [saEnd EXCEPT ![k] = "raised"]
    /\ UNCHANGED <<hubVars, workerVars, filterVars, bridgeVars, dbVars, trackVars, cfgVars, lifeVars, pubVars, limits, streams,
                   nSup, camera_id, running, task, cancelReq, thread, cap, leaked,
                   latest_raw, latest_frame, nFrames, backoff, connected,
                   error_count, reconnect_count, log, stopped, cSup, cCam, ret,
                   saTodo, saAt>>

\* What a reader gets that calls StreamManager.get_raw_frame and
\* StreamManager.get_snapshot one after the other with no await between them.
ReaderView(c) ==
    IF is_streaming(c)
    THEN <<get_raw_frame(streams[c]), get_snapshot(streams[c])>>
    ELSE <<0, 0>>

\* The values of rtsp_url and of fps that the callers pass.
Urls == 1..limits.urls

FpsValues == 1..limits.fps

\* The coroutines that call the registry.
StreamCallers == 1..limits.callers

StreamNext ==
    \/ \E s \in SupIds : TaskBegin(s)
    \/ \E s \in SupIds, r \in {"ok", "fail", "raise"} : ConnectDone(s, r)
    \/ \E s \in SupIds : BackoffWake(s)
    \/ \E s \in SupIds, r \in {"frame", "fail", "raise"} : ReadDone(s, r)
    \/ \E s \in SupIds, r \in {"jpeg", "none", "raise"} : EncodeDone(s, r)
    \/ \E s \in SupIds : PublishDone(s)
    \/ \E s \in SupIds : ThrottleWake(s)
    \/ \E s \in SupIds : CancelDeliver(s)
    \/ \E s \in SupIds, opened \in BOOLEAN : ThreadExit(s, opened)
    \/ \E k \in StreamCallers, c \in StreamCams, u \in Urls, f \in FpsValues :
           StartStream(k, c, u, f)
    \/ \E k \in StreamCallers, c \in StreamCams : StopStream(k, c)
    \/ \E k \in StreamCallers, c \in StreamCams : StopAbsent(k, c)
    \/ \E k \in StreamCallers, c \in StreamCams, u \in Urls, f \in FpsValues :
           RestartStream(k, c, u, f)
    \/ \E k \in StreamCallers : StopReturn(k)

\* The steps of the supervisors' tasks when every camera answers: each
\* connect, read and encode succeeds.
HealthyTasks ==
    \/ \E s \in SupIds : TaskBegin(s)
    \/ \E s \in SupIds : ConnectDone(s, "ok")
    \/ \E s \in SupIds : ReadDone(s, "frame")
    \/ \E s \in SupIds : EncodeDone(s, "jpeg")
    \/ \E s \in SupIds : PublishDone(s)
    \/ \E s \in SupIds : ThrottleWake(s)
    \/ \E s \in SupIds : CancelDeliver(s)
    \/ \E s \in SupIds, opened \in BOOLEAN : ThreadExit(s, opened)

\* start_stream and stop_stream on cameras that answer.
ConfigNext ==
    \/ HealthyTasks
    \/ \E k \in StreamCallers, c \in StreamCams, u \in Urls, f \in FpsValues :
           StartStream(k, c, u, f)
    \/ \E k \in StreamCallers, c \in StreamCams : StopStream(k, c)
    \/ \E k \in StreamCallers, c \in StreamCams : StopAbsent(k, c)
    \/ \E k \in StreamCallers : StopReturn(k)

(***************************************************************************)
(* ConnectionManager                                                       *)
(*                                                                         *)
(* No coroutine awaits while it holds _lock, and acquiring a free          *)
(* asyncio.Lock does not yield, so _lock is free whenever a coroutine is   *)
(* resumed: each "async with self._lock" block is part of one step.        *)
(***************************************************************************)

\* self._connections.get(channel, set())
Members(conns, ch) == IF ch \in DOMAIN conns THEN conns[ch] ELSE {}

DiscardDead_noop(conns, ch, deadSet) == conns

\* for ws in dead: if channel in self._connections: discard(ws)
DiscardDead(conns, ch, deadSet) ==
    IF ch \in DOMAIN conns
    THEN [conns EXCEPT ![ch] = @ \ deadSet]
    ELSE conns

\* The end of a broadcast once the for loop has visited todoLeft = {}: the
\* "if dead" block.  While sockets are left the loop goes on to the next send.
AfterSend(conns, ch, deadSet, todoLeft) ==
    IF todoLeft = {} THEN DiscardDead(conns, ch, deadSet) ELSE conns

\* "await ws.send_bytes(data)" is called on the socket w by the publisher p:
\* a socket finishes the sends in the order in which they were called.
CallSend(q, p, w) == [q EXCEPT ![w] = Append(@, p)]

\* The for loop takes the next socket of the local set, in the set's
\* iteration order, which is any order.
NextSend(q, p, left) ==
    IF left = {}
    THEN sendq' = q
    ELSE \E w \in left : sendq' = CallSend(q, p, w)

\* The sends of the publisher p are abandoned with its task.
AbandonSends(p) ==
    [w \in Sockets |-> SelectSeq(sendq[w], LAMBDA q : q # p)]

HubInit ==
    /\ connections = [ch \in {} |-> {}]
    /\ wsState = [w \in Sockets |-> "new"]
    /\ wsChan = [w \in Sockets |-> 0]
    /\ inbox = [w \in Sockets |-> <<>>]
    /\ nMsg = 0
    /\ ppc = [p \in Pubs |-> "idle"]
    /\ pch = [p \in Pubs |-> 0]
    /\ pmsg = [p \in Pubs |-> 0]
    /\ snapshot = [p \in Pubs |-> {}]
    /\ todo = [p \in Pubs |-> {}]
    /\ dead = [p \in Pubs |-> {}]
    /\ completed = [p \in Pubs |-> FALSE]
    /\ finishedAt = [p \in Pubs |-> 0]
    /\ prunedBy = [p \in Pubs |-> {}]
    /\ sendq = [w \in Sockets |-> <<>>]

\* ConnectionManager.connect, called once by the socket's route handler
Connect(w, ch) ==
    /\ wsState[w] = "new"
    /\ wsState' = [wsState EXCEPT ![w] = "open"]
    /\ wsChan' = [wsChan EXCEPT ![w] = ch]
    /\ connections' = [c \in DOMAIN connections \cup {ch} |->
                          IF c = ch THEN Members(connections, ch) \cup {w}
                          ELSE connections[c]]
    /\ UNCHANGED <<streamVars, workerVars, filterVars, bridgeVars, inbox, nMsg, ppc, pch, pmsg, snapshot, todo, dead,
                   completed, finishedAt, prunedBy, sendq>>

\* ConnectionManager.disconnect, called in the finally of the route handler
Disconnect(w) ==
    /\ wsState[w] = "open"
    /\ wsState' = [wsState EXCEPT ![w] = "closed"]
    /\ LET ch == wsChan[w] IN
       connections' =
           IF ch \in DOMAIN connections
           THEN IF connections[ch] \ {w} = {}
                THEN [c \in DOMAIN connections \ {ch} |-> connections[c]]
                ELSE [connections EXCEPT ![ch] = @ \ {w}]
           ELSE connections
    /\ UNCHANGED <<streamVars, workerVars, filterVars, bridgeVars, wsChan, inbox, nMsg, ppc, pch, pmsg, snapshot, todo,
                   dead, completed, finishedAt, prunedBy, sendq>>

AfterCopy_setdefault(conns, ch) ==
    [c \in DOMAIN conns \cup {ch} |-> Members(conns, c)]

\* "self._connections.get(channel, set()).copy()": get with a default reads
\* the dict and inserts nothing.
AfterCopy(conns, ch) == conns

\* broadcast_to_channel / broadcast_bytes up to the first send: the copy of
\* the channel's set under the lock.  With no subscriber the for loop and the
\* "if dead" block do nothing and the broadcast returns in the same step.
PublishBeginCore(p, ch) ==
    /\ ppc[p] = "idle"
    /\ nMsg < MaxMsgs
    /\ nMsg' = nMsg + 1
    /\ pch' = [pch EXCEPT ![p] = ch]
    /\ pmsg' = [pmsg EXCEPT ![p] = nMsg + 1]
    /\ snapshot' = [snapshot EXCEPT ![p] = Members(connections, ch)]
    /\ todo' = [todo EXCEPT ![p] = Members(connections, ch)]
    /\ dead' = [dead EXCEPT ![p] = {}]
    /\ prunedBy' = [prunedBy EXCEPT ![p] = {}]
    /\ NextSend(sendq, p, Members(connections, ch))
    /\ IF Members(connections, ch) = {}
       THEN /\ completed' = [completed EXCEPT ![p] = TRUE]
            /\ finishedAt' = [finishedAt EXCEPT ![p] = nMsg + 1]
            /\ UNCHANGED ppc
       ELSE /\ completed' = [completed EXCEPT ![p] = FALSE]
            /\ ppc' = [ppc EXCEPT ![p] = "sending"]
            /\ UNCHANGED finishedAt
    /\ connections' = AfterCopy(connections, ch)
    /\ UNCHANGED <<wsState, wsChan, inbox>>

\* A broadcast by a publisher other than the bridge receiver.
PublishBegin(p, ch) ==
    /\ PublishBeginCore(p, ch)
    /\ UNCHANGED <<streamVars, workerVars, filterVars, bridgeVars>>

\* One pass of the for loop: ws.send_json / ws.send_bytes to the socket w
\* returns (ok) or raises, and after the last socket the dead ones are
\* discarded and the broadcast returns.
Send(p, w, ok) ==
    /\ ppc[p] = "sending"
    /\ w \in todo[p]
    /\ sendq[w] # <<>> /\ Head(sendq[w]) = p
    /\ NextSend([sendq EXCEPT ![w] = Tail(@)], p, todo[p] \ {w})
    /\ todo' = [todo EXCEPT ![p] = @ \ {w}]
    /\ inbox' = [inbox EXCEPT ![w] = IF ok THEN Append(@, pmsg[p]) ELSE @]
    /\ LET deadNow == IF ok THEN dead[p] ELSE dead[p] \cup {w}
           left == todo[p] \ {w}
           after == AfterSend(connections, pch[p], deadNow, left)
       IN /\ dead' = [dead EXCEPT ![p] = deadNow]
          /\ connections' = after
          /\ prunedBy' = [prunedBy EXCEPT ![p] =
                 @ \cup (Members(connections, pch[p]) \ Members(after, pch[p]))]
          /\ IF left = {}
             THEN /\ ppc' = [ppc EXCEPT ![p] = "idle"]
                  /\ completed' = [completed EXCEPT ![p] = TRUE]
                  /\ finishedAt' = [finishedAt EXCEPT ![p] = nMsg]
             ELSE UNCHANGED <<ppc, completed, finishedAt>>
    /\ UNCHANGED <<streamVars, workerVars, filterVars, bridgeVars, wsState, wsChan, nMsg, pch, pmsg, snapshot>>

\* The task running the broadcast is cancelled while it awaits a send
\* (CameraStream.stop cancels the task that called broadcast_bytes).
PublishCancel(p) ==
    /\ ppc[p] = "sending"
    /\ ppc' = [ppc EXCEPT ![p] = "idle"]
    /\ sendq' = AbandonSends(p)
    /\ UNCHANGED <<streamVars, workerVars, filterVars, bridgeVars, connections, wsState, wsChan, inbox, nMsg, pch, pmsg,
                   snapshot, todo, dead, completed, finishedAt, prunedBy>>

HubNext ==
    \/ \E w \in Sockets, ch \in Channels : Connect(w, ch)
    \/ \E w \in Sockets : Disconnect(w)
    \/ \E p \in Pubs, ch \in Channels : PublishBegin(p, ch)
    \/ \E p \in Pubs, w \in Sockets, ok \in BOOLEAN : Send(p, w, ok)
    \/ \E p \in Pubs : PublishCancel(p)

(***************************************************************************)
(* DetectionWorker._process_results: the filter loop                       *)
(*                                                                         *)
(* A confidence is a multiple of 1/MaxConf, written as its numerator; a    *)
(* bounding box is written as the index of its detection in the result.    *)
(***************************************************************************)

Categories == {"person", "vehicle", "animal", "custom"}

\* One raw class of every group of _map_class_to_event_type.
RawClasses == {"person", "car", "dog", "chair"}

vehicles == {"car", "motorcycle", "bus", "train", "truck"}

animals == {"bird", "cat", "dog", "horse", "sheep", "cow", "elephant", "bear",
            "zebra", "giraffe"}

map_class_to_event_type(yolo_class) ==
    CASE yolo_class = "person" -> "person"
      [] yolo_class \in vehicles -> "vehicle"
      [] yolo_class \in animals -> "animal"
      [] OTHER -> "custom"

BelowThreshold_exclusive(conf, threshold) == conf <= threshold

\* if float(conf) < threshold: continue
BelowThreshold(conf, threshold) == conf < threshold

\* detected_objs, highest_conf_class, highest_conf, primary_bbox before the loop
LoopStart ==
    [objs |-> <<>>, highest_conf |-> 0, highest_conf_class |-> "none",
     primary_bbox |-> 0]

\* The body of "for box, conf, cls_id in zip(boxes, confs, class_ids)" for the
\* detection at index i.
LoopBody(acc, b, i, classes, threshold) ==
    LET mapped_type == map_class_to_event_type(b.cls) IN
    IF mapped_type \notin classes THEN acc
    ELSE IF BelowThreshold(b.conf, threshold) THEN acc
    ELSE IF b.conf > acc.highest_conf
         THEN [objs |-> Append(acc.objs, i), highest_conf |-> b.conf,
               highest_conf_class |-> mapped_type, primary_bbox |-> i]
         ELSE [acc EXCEPT !.objs = Append(@, i)]

RECURSIVE FilterLoop(_, _, _, _, _)
FilterLoop(boxes, classes, threshold, i, acc) ==
    IF i > Len(boxes) THEN acc
    ELSE FilterLoop(boxes, classes, threshold, i + 1,
                    LoopBody(acc, boxes[i], i, classes, threshold))

\* generate_event_summary formats event_type.value before its try block: with
\* event_type None the call raises, and _create_event persists nothing.
CreateEventOutcome(event_type) ==
    IF event_type = "none" THEN "raised" ELSE "event"

\* _process_results for one result, all awaited calls succeeding: it returns
\* at line 180 or 214, or calls _create_event with the loop's values.
ProcessOutcome(boxes, classes, threshold) ==
    LET acc == FilterLoop(boxes, classes, threshold, 1, LoopStart) IN
    IF Len(boxes) = 0 THEN LoopStart @@ [outcome |-> "returned"]
    ELSE IF Len(acc.objs) = 0 THEN acc @@ [outcome |-> "returned"]
    ELSE acc @@ [outcome |-> CreateEventOutcome(acc.highest_conf_class)]

Pending == LoopStart @@ [outcome |-> "pending"]

Detections == [cls : RawClasses, conf : 0..MaxConf]

\* A camera document and an inference result.
FilterInit ==
    /\ f_threshold \in 0..MaxConf
    /\ f_classes \in SUBSET Categories
    /\ f_boxes \in UNION {[1..n -> Detections] : n \in 0..MaxBoxes}
    /\ f_out = Pending

\* No result is being processed.
FilterIdle ==
    /\ f_threshold = 0
    /\ f_classes = {}
    /\ f_boxes = <<>>
    /\ f_out = Pending

ProcessResults ==
    /\ f_out.outcome = "pending"
    /\ f_out' = ProcessOutcome(f_boxes, f_classes, f_threshold)
    /\ UNCHANGED <<streamVars, hubVars, workerVars, bridgeVars, f_threshold,
                   f_classes, f_boxes>>

FilterNext == ProcessResults

(***************************************************************************)
(* DetectionWorker                                                         *)
(*                                                                         *)
(* The worker is started once (main.py, lifespan) and stopped once.  An    *)
(* awaited call returns or raises; which one is the environment's choice.  *)
(***************************************************************************)

\* The detection being processed: its camera, the mapped category of the
\* primary box, highest_conf_class, face_id, how the summarizer went and
\* ai_summary.
NoDetection ==
    [cam |-> 0, key |-> "none", type |-> "none", face |-> 0,
     llm |-> "none", summary |-> "none"]

\* How the processing of the last detection went: the failure of the identity
\* sub-step, the result, event_type, face_id and ai_summary of the inserted
\* document, and the side effects so far.
NoLast ==
    [idFail |-> "none", result |-> "none", type |-> "none", face |-> 0,
     summary |-> "none", effects |-> {}]

\* The fallback of generate_event_summary.
FALLBACK == "Event detected."

AfterCycleError_escapes == "done"

\* "except Exception" of _run_loop: log, then await asyncio.sleep(5)
AfterCycleError == "err_sleep"

DispatchCreated_awaited == "notify_wait"

\* asyncio.create_task(notification_service.dispatch(...)) as the last
\* statement of _create_event: the task is created, not awaited, and
\* _create_event returns.
DispatchCreated == "return"

WorkerInit ==
    /\ notif = [i \in 1..MaxEvents |-> "none"]
    /\ w_running = FALSE
    /\ wtask = "none"
    /\ wCancelReq = FALSE
    /\ stopCalled = FALSE
    /\ idx = 0
    /\ cur = NoDetection
    /\ events = <<>>
    /\ cooldowns = {}
    /\ now = 0
    /\ visited = {}
    /\ cycleCams = {}
    /\ last = NoLast
    /\ errSeen = FALSE

\* "while self._running" of _run_loop and the call of _process_active_cameras
\* up to its first await, cursor.to_list.
CycleStart ==
    /\ wtask' = (IF w_running THEN "fetch" ELSE "done")
    /\ idx' = 0
    /\ visited' = {}
    /\ cycleCams' = {}

\* The for loop of _process_active_cameras from the camera at index from on:
\* the cameras before j have no connected stream or no frame and are skipped,
\* for camera j the inference is awaited; j past the end ends the cycle, and
\* _run_loop sleeps.
\* The query of _process_active_cameras: the documents with enabled and
\* detection_config.object_detection.
Listed ==
    {c \in 1..limits.wcams :
        cameras[c].exists /\ cameras[c].enabled /\ cameras[c].object_detection}

Ready_unconnected(c) ==
    /\ streams[c] # 0
    /\ latest_raw[streams[c]] # 0

\* The two "continue" tests of the for loop: get_stream_status is not None
\* and says connected, and get_raw_frame is not None.
Ready(c) ==
    /\ streams[c] # 0
    /\ connected[streams[c]]
    /\ latest_raw[streams[c]] # 0

\* The cameras the for loop passes from the one at index from up to j, and
\* whether it awaits the inference for camera j.  Where the registry is not
\* part of the behaviours (limits.poll = "env") every listed camera may or
\* may not have a connected stream with a frame.
Selected(from, j, listed) ==
    \/ limits.poll = "env"
    \/ /\ \A c \in from..(j - 1) : c \notin listed \/ ~Ready(c)
       /\ j <= limits.wcams => j \in listed /\ Ready(j)

Advance(from, j) ==
    /\ j \in from..(limits.wcams + 1)
    /\ Selected(from, j, IF wtask = "fetch" THEN Listed ELSE cycleCams)
    /\ visited' = visited \cup (from..Min(j, limits.wcams))
    /\ IF j <= limits.wcams
       THEN wtask' = "predict" /\ idx' = j
       ELSE wtask' = "sleep" /\ idx' = 0

\* An exception leaves _process_active_cameras and reaches _run_loop.
CycleError ==
    /\ wtask' = AfterCycleError
    /\ errSeen' = TRUE
    /\ UNCHANGED <<idx, visited>>

\* DetectionWorker.start
WStart ==
    /\ ~w_running /\ wtask = "none"
    /\ w_running' = TRUE
    /\ wtask' = "start"
    /\ UNCHANGED <<streamVars, hubVars, filterVars, bridgeVars, notif, wCancelReq, stopCalled, idx, cur, events,
                   cooldowns, now, visited, cycleCams, last, errSeen>>

\* DetectionWorker.stop up to its await of the task
WStop ==
    /\ wtask # "none" /\ ~stopCalled
    /\ stopCalled' = TRUE
    /\ w_running' = FALSE
    /\ wCancelReq' = (wtask # "done")
    /\ UNCHANGED <<streamVars, hubVars, filterVars, bridgeVars, notif, wtask, idx, cur, events, cooldowns, now,
                   visited, cycleCams, last, errSeen>>

\* The task resumes with CancelledError: line 129 breaks the loop, or the
\* error leaves the sleep of the except block; the task ends either way.
WCancelDeliver ==
    /\ wCancelReq /\ wtask \notin {"none", "done"}
    /\ wCancelReq' = FALSE
    /\ wtask' = "done"
    /\ UNCHANGED <<streamVars, hubVars, filterVars, bridgeVars, notif, w_running, stopCalled, idx, cur, events,
                   cooldowns, now, visited, cycleCams, last, errSeen>>

\* The task's first step.
WBegin ==
    /\ wtask = "start" /\ ~wCancelReq
    /\ CycleStart
    /\ UNCHANGED <<streamVars, hubVars, filterVars, bridgeVars, notif, w_running, wCancelReq, stopCalled, cur,
                   events, cooldowns, now, last, errSeen>>

\* cursor.to_list has returned the cameras with detection enabled, or raised.
FetchDone(r) ==
    /\ wtask = "fetch" /\ ~wCancelReq
    /\ IF r = "ok"
       THEN /\ cycleCams' = (IF limits.poll = "env" THEN 1..limits.wcams ELSE Listed)
            /\ \E j \in 1..(limits.wcams + 1) : Advance(1, j)
            /\ UNCHANGED errSeen
       ELSE /\ CycleError
            /\ UNCHANGED cycleCams
    /\ UNCHANGED <<streamVars, hubVars, filterVars, bridgeVars, notif, w_running, wCancelReq, stopCalled, cur,
                   events, cooldowns, now, last>>

\* engine.predict has returned or raised, and _process_results runs up to its
\* first await.  r is "raise", "empty" (no result, no box, or no box that
\* passes the filters), or highest_conf_class after the filter loop: the
\* mapped category of the primary detection, or "none" when every box that
\* passed has confidence 0; crop tells whether the padded crop of a person
\* is non-empty.
PredictDone(r, crop) ==
    /\ wtask = "predict" /\ ~wCancelReq
    /\ CASE r = "raise" ->
              /\ CycleError
              /\ UNCHANGED <<cur, cooldowns, last>>
         [] r = "empty" ->
              /\ \E j \in (idx + 1)..(limits.wcams + 1) : Advance(idx + 1, j)
              /\ cooldowns' = cooldowns \cup {idx}
              /\ UNCHANGED <<cur, last, errSeen>>
         [] r \in {"person", "vehicle", "none"} ->
              /\ Len(events) < limits.events
              /\ cooldowns' = cooldowns \cup {idx}
              /\ cur' = [NoDetection EXCEPT !.cam = idx, !.key = r, !.type = r]
              /\ last' = [NoLast EXCEPT !.result = "pending"]
              /\ wtask' = (IF r = "person" /\ crop THEN "embed" ELSE "create")
              /\ UNCHANGED <<idx, visited, errSeen>>
    /\ UNCHANGED <<streamVars, hubVars, filterVars, bridgeVars, notif, w_running, wCancelReq, stopCalled, events,
                   now, cycleCams>>

\* face_engine.extract_embedding has returned an embedding or None, or raised.
EmbedDone(r) ==
    /\ wtask = "embed" /\ ~wCancelReq
    /\ CASE r = "raise" ->
              /\ CycleError
              /\ last' = [last EXCEPT !.idFail = "embed_raise", !.result = "no_event"]
         [] r = "none" ->
              /\ wtask' = "create"
              /\ last' = [last EXCEPT !.idFail = "embed_none"]
              /\ UNCHANGED <<idx, visited, errSeen>>
         [] r = "embedding" ->
              /\ wtask' = "match"
              /\ UNCHANGED <<idx, visited, errSeen, last>>
    /\ UNCHANGED <<streamVars, hubVars, filterVars, bridgeVars, notif, w_running, wCancelReq, stopCalled, cur,
                   events, cooldowns, now, cycleCams>>

\* face_engine.match_face has returned a face id or None, or raised; then
\* the update of the known face, or the insertion of a new one, is awaited.
MatchDone(r) ==
    /\ wtask = "match" /\ ~wCancelReq
    /\ CASE r = "raise" ->
              /\ CycleError
              /\ last' = [last EXCEPT !.idFail = "match_raise", !.result = "no_event"]
              /\ UNCHANGED cur
         [] r = "matched" ->
              /\ wtask' = "face_db"
              /\ cur' = [cur EXCEPT !.type = "face_known", !.face = 1]
              /\ UNCHANGED <<idx, visited, errSeen, last>>
         [] r = "nomatch" ->
              /\ wtask' = "face_db"
              /\ cur' = [cur EXCEPT !.type = "face_unknown"]
              /\ UNCHANGED <<idx, visited, errSeen, last>>
    /\ UNCHANGED <<streamVars, hubVars, filterVars, bridgeVars, notif, w_running, wCancelReq, stopCalled, events,
                   cooldowns, now, cycleCams>>

\* faces_collection().update_one for a known face, or insert_one, enroll_face
\* and update_one for a new one (face id 2), have returned, or one has raised.
FaceDbDone(r) ==
    /\ wtask = "face_db" /\ ~wCancelReq
    /\ IF r = "ok"
       THEN /\ wtask' = "create"
            /\ cur' = [cur EXCEPT !.face = IF cur.type = "face_unknown" THEN 2 ELSE @]
            /\ last' = [last EXCEPT !.effects = @ \cup
                           (IF cur.type = "face_unknown"
                            THEN {"face_insert", "enroll"} ELSE {"face_update"})]
            /\ UNCHANGED <<idx, visited, errSeen>>
       ELSE /\ CycleError
            /\ last' = [last EXCEPT !.idFail = "db_raise", !.result = "no_event"]
            /\ UNCHANGED cur
    /\ UNCHANGED <<streamVars, hubVars, filterVars, bridgeVars, notif, w_running, wCancelReq, stopCalled, events,
                   cooldowns, now, cycleCams>>

\* An exception leaves _create_event before the event is inserted.
CreateFailed ==
    /\ CycleError
    /\ last' = [last EXCEPT !.result = "create_failed"]
    /\ UNCHANGED <<cur, events>>

\* "return fallback" of _generate_text misplaced: the result is returned as is.
generate_text_unguarded(r) ==
    CASE r = "text" -> "text"
      [] r = "blank" -> ""
      [] r = "empty" -> ""
      [] OTHER -> FALLBACK

\* What _generate_text returns: r is "absent" (no active provider), "raise"
\* (the settings query or the provider call raised), or what the provider
\* returned: "empty" (an empty string or None), "blank" (white space only,
\* stripped to the empty string) or "text".
generate_text(r) ==
    CASE r = "text" -> "text"
      [] r = "blank" -> ""
      [] OTHER -> FALLBACK

\* generate_event_summary up to its first await, the settings query of
\* _generate_text; formatting the prompt raises when event_type is None.
SummaryStart ==
    IF CreateEventOutcome(cur.type) = "raised"
    THEN CreateFailed
    ELSE /\ wtask' = "llm_settings"
         /\ UNCHANGED <<idx, visited, errSeen, cur, events, last>>

\* _create_event: cv2.imwrite of the annotated frame has returned or raised;
\* then the face document is looked up, or the summary is asked for.
SnapshotDone(r) ==
    /\ wtask = "create" /\ ~wCancelReq
    /\ IF r = "ok"
       THEN IF cur.face # 0
            THEN /\ wtask' = "face_lookup"
                 /\ last' = [last EXCEPT !.effects = @ \cup {"snapshot"}]
                 /\ UNCHANGED <<idx, visited, errSeen, cur, events>>
            ELSE IF CreateEventOutcome(cur.type) = "raised"
                 THEN /\ CycleError
                      /\ last' = [last EXCEPT !.result = "create_failed",
                                              !.effects = @ \cup {"snapshot"}]
                      /\ UNCHANGED <<cur, events>>
                 ELSE /\ wtask' = "llm_settings"
                      /\ last' = [last EXCEPT !.effects = @ \cup {"snapshot"}]
                      /\ UNCHANGED <<idx, visited, errSeen, cur, events>>
       ELSE CreateFailed
    /\ UNCHANGED <<streamVars, hubVars, filterVars, bridgeVars, notif, w_running,
                   wCancelReq, stopCalled, cooldowns, now, cycleCams>>

\* faces_collection().find_one has returned or raised.
FaceLookupDone(r) ==
    /\ wtask = "face_lookup" /\ ~wCancelReq
    /\ IF r = "ok"
       THEN SummaryStart
       ELSE CreateFailed
    /\ UNCHANGED <<streamVars, hubVars, filterVars, bridgeVars, notif, w_running,
                   wCancelReq, stopCalled, cooldowns, now, cycleCams>>

\* _get_llm_settings has returned with no active provider ("absent") or with
\* one ("provider"), or raised; with a provider _call_provider is awaited,
\* otherwise _generate_text returns and the insertion is awaited.
LlmSettingsDone(r) ==
    /\ wtask = "llm_settings" /\ ~wCancelReq
    /\ IF r = "provider"
       THEN /\ wtask' = "llm_call"
            /\ UNCHANGED cur
       ELSE /\ wtask' = "insert"
            /\ cur' = [cur EXCEPT !.llm = r, !.summary = generate_text(r)]
    /\ UNCHANGED <<streamVars, hubVars, filterVars, bridgeVars, notif, w_running,
                   wCancelReq, stopCalled, idx, events, cooldowns, now, visited,
                   cycleCams, last, errSeen>>

\* _call_provider has returned or raised; events_collection().insert_one is
\* awaited.
LlmCallDone(r) ==
    /\ wtask = "llm_call" /\ ~wCancelReq
    /\ wtask' = "insert"
    /\ cur' = [cur EXCEPT !.llm = r, !.summary = generate_text(r)]
    /\ UNCHANGED <<streamVars, hubVars, filterVars, bridgeVars, notif, w_running,
                   wCancelReq, stopCalled, idx, events, cooldowns, now, visited,
                   cycleCams, last, errSeen>>

\* events_collection().insert_one has returned or raised; after the insertion
\* the notification task is created and the for loop goes on.
CreateDone(r) ==
    /\ wtask = "insert" /\ ~wCancelReq
    /\ IF r = "ok"
       THEN /\ events' = Append(events, [cam |-> cur.cam, key |-> cur.key,
                                         type |-> cur.type, face |-> cur.face,
                                         t |-> now])
            /\ last' = [last EXCEPT !.result = "event", !.type = cur.type,
                                    !.face = cur.face,
                                    !.summary = cur.summary,
                                    !.effects = @ \cup {"event", "notify"}]
            /\ notif' = [notif EXCEPT ![Len(events) + 1] = "start"]
            /\ IF DispatchCreated = "return"
               THEN \E j \in (idx + 1)..(limits.wcams + 1) : Advance(idx + 1, j)
               ELSE /\ wtask' = DispatchCreated
                    /\ UNCHANGED <<idx, visited>>
            /\ UNCHANGED <<errSeen, cur>>
       ELSE /\ CreateFailed
            /\ UNCHANGED notif
    /\ UNCHANGED <<streamVars, hubVars, filterVars, bridgeVars, w_running,
                   wCancelReq, stopCalled, cooldowns, now, cycleCams>>

\* NotificationService.dispatch, run as a task of its own: the task's first
\* step, up to the await of the settings query.
DispatchBegin(i) ==
    /\ notif[i] = "start"
    /\ notif' = [notif EXCEPT ![i] = "settings"]
    /\ UNCHANGED <<streamVars, hubVars, filterVars, bridgeVars, w_running, wtask,
                   wCancelReq, stopCalled, idx, cur, events, cooldowns, now,
                   visited, cycleCams, last, errSeen>>

\* _get_notification_settings has returned or raised.  With no channel
\* enabled ("off") dispatch returns; with some channel enabled ("on") it
\* awaits the gather of the sends; an exception ends the task, and nobody
\* awaits the task or starts another one for the event.
DispatchSettingsDone(i, r) ==
    /\ notif[i] = "settings"
    /\ notif' = [notif EXCEPT ![i] = CASE r = "off" -> "done"
                                      [] r = "on" -> "sending"
                                      [] r = "raise" -> "failed"]
    /\ UNCHANGED <<streamVars, hubVars, filterVars, bridgeVars, w_running, wtask,
                   wCancelReq, stopCalled, idx, cur, events, cooldowns, now,
                   visited, cycleCams, last, errSeen>>

\* asyncio.gather(*tasks, return_exceptions=True) has returned: every send
\* has ended, whether it went through or logged its failure.
DispatchGatherDone(i) ==
    /\ notif[i] = "sending"
    /\ notif' = [notif EXCEPT ![i] = "done"]
    /\ UNCHANGED <<streamVars, hubVars, filterVars, bridgeVars, w_running, wtask,
                   wCancelReq, stopCalled, idx, cur, events, cooldowns, now,
                   visited, cycleCams, last, errSeen>>

\* The steps of the notification tasks.
DispatchTask ==
    \/ \E i \in 1..MaxEvents : DispatchBegin(i)
    \/ \E i \in 1..MaxEvents, r \in {"off", "on", "raise"} : DispatchSettingsDone(i, r)
    \/ \E i \in 1..MaxEvents : DispatchGatherDone(i)

\* The sleep that ends a cycle (lines 125, 127) or follows an exception
\* (line 133) is over: the next cycle.
SleepDone ==
    /\ wtask \in {"sleep", "err_sleep"} /\ ~wCancelReq
    /\ CycleStart
    /\ UNCHANGED <<streamVars, hubVars, filterVars, bridgeVars, notif, w_running, wCancelReq, stopCalled, cur,
                   events, cooldowns, now, last, errSeen>>

\* Time passes.
Tick(d) ==
    /\ now + d <= limits.time
    /\ now' = now + d
    /\ UNCHANGED <<streamVars, hubVars, filterVars, bridgeVars, notif, w_running, wtask, wCancelReq, stopCalled,
                   idx, cur, events, cooldowns, visited, cycleCams, last, errSeen>>

\* The steps of the task DetectionWorker._task.
WorkerTask ==
    \/ WCancelDeliver
    \/ WBegin
    \/ \E r \in {"ok", "raise"} : FetchDone(r)
    \/ \E r \in {"raise", "empty", "person", "vehicle", "none"}, crop \in BOOLEAN :
           PredictDone(r, crop)
    \/ \E r \in {"raise", "none", "embedding"} : EmbedDone(r)
    \/ \E r \in {"raise", "matched", "nomatch"} : MatchDone(r)
    \/ \E r \in {"ok", "raise"} : FaceDbDone(r)
    \/ \E r \in {"ok", "raise"} : SnapshotDone(r)
    \/ \E r \in {"ok", "raise"} : FaceLookupDone(r)
    \/ \E r \in {"absent", "provider", "raise"} : LlmSettingsDone(r)
    \/ \E r \in {"text", "empty", "blank", "raise"} : LlmCallDone(r)
    \/ \E r \in {"ok", "raise"} : CreateDone(r)
    \/ SleepDone

WorkerNext ==
    \/ WStart
    \/ WStop
    \/ WorkerTask
    \/ \E d \in TickSteps : Tick(d)

\* The steps of the worker's task when every detection is a vehicle and no
\* summarizer is configured.
VehicleWorkerTask ==
    \/ WCancelDeliver
    \/ WBegin
    \/ \E r \in {"ok", "raise"} : FetchDone(r)
    \/ \E r \in {"raise", "empty", "vehicle"} : PredictDone(r, FALSE)
    \/ \E r \in {"ok", "raise"} : SnapshotDone(r)
    \/ \E r \in {"absent", "raise"} : LlmSettingsDone(r)
    \/ \E r \in {"ok", "raise"} : CreateDone(r)
    \/ SleepDone

\* The worker together with the notification tasks it creates.
NotifyNext ==
    \/ WStart
    \/ WStop
    \/ VehicleWorkerTask
    \/ DispatchTask

(***************************************************************************)
(* DeepStreamBridge (the producer) and DeepStreamReceiver (the consumer)   *)
(*                                                                         *)
(* The PUSH socket, the connection and the PULL socket are one queue of    *)
(* at most ChanCap messages.  A message is a record: type is "frame",      *)
(* "detection", "absent" (no type key) or "garbage" (bytes that unpackb    *)
(* rejects or that are no map); cam is the camera id, 0 when the key is    *)
(* absent; jpeg and dets are "absent" when the key is absent; extra tells  *)
(* whether the message has keys the receiver does not know.  The channel   *)
(* "camera:<id>" of the connection manager is the channel id, and          *)
(* "camera:" the channel 0.                                                *)
(***************************************************************************)

\* The publisher slot of the connection manager that the receiver's task uses.
RecvPub == 1

\* The live viewers of the bridge's cameras.
RecvSockets == {1}

Msg(type, cam, jpeg, dets, extra) ==
    [type |-> type, cam |-> cam, jpeg |-> jpeg, dets |-> dets, extra |-> extra]

\* Messages that no publish_* call of this producer builds: a key is missing,
\* an unknown key is present, or the bytes are not a msgpack map.
ForeignMsgs ==
    {Msg("absent", 1, "data", "absent", FALSE),
     Msg("frame", 0, "data", "absent", FALSE),
     Msg("frame", 1, "absent", "absent", FALSE),
     Msg("detection", 0, "absent", "some", FALSE),
     Msg("detection", 1, "absent", "absent", FALSE),
     Msg("frame", 1, "data", "absent", TRUE),
     Msg("detection", 1, "absent", "some", TRUE),
     Msg("garbage", 0, "absent", "absent", FALSE)}

\* The messages publish_frame and publish_detections build.
ProducerMsgs ==
    {Msg("frame", c, j, "absent", FALSE) : c \in Channels, j \in {"empty", "data"}}
        \cup {Msg("detection", c, "absent", d, FALSE) :
                 c \in Channels, d \in {"empty", "some"}}

AllMsgs == ProducerMsgs \cup ForeignMsgs

\* A frame of either camera, one detection list and one undecodable message.
CoreMsgs ==
    {Msg("frame", 1, "data", "absent", FALSE),
     Msg("frame", 2, "data", "absent", FALSE),
     Msg("detection", 1, "absent", "some", FALSE),
     Msg("garbage", 0, "absent", "absent", FALSE)}

send_blocking(q, m) ==
    IF Len(q) < ChanCap
    THEN [q |-> Append(q, m), again |-> FALSE, blocked |-> FALSE]
    ELSE [q |-> q, again |-> FALSE, blocked |-> TRUE]

\* self._sock.send(packed, zmq.NOBLOCK): queues the message, or raises
\* zmq.Again when the queue is full.
send_noblock(q, m) ==
    IF Len(q) < ChanCap
    THEN [q |-> Append(q, m), again |-> FALSE, blocked |-> FALSE]
    ELSE [q |-> q, again |-> TRUE, blocked |-> FALSE]

\* The try block of publish_frame and publish_detections: the send, and
\* "except zmq.Again: pass".
BridgeSend(m) ==
    /\ nSent < limits.sent
    /\ m \in limits.msgs
    /\ ~sendBlocked
    /\ LET msg == m @@ [id |-> nSent + 1]
           res == send_noblock(chan, msg)
       IN /\ chan' = res.q
          /\ sendBlocked' = res.blocked
          /\ droppedIds' = IF res.again THEN droppedIds \cup {nSent + 1}
                           ELSE droppedIds
    /\ nSent' = nSent + 1
    /\ UNCHANGED <<streamVars, hubVars, workerVars, filterVars, r_running, rtask,
                   rCancelReq, rStopCalled, rstop, r_sock, taken, rlast, rpublished, handlers,
                   handed>>

publish_frame(cam_id, jpeg) ==
    BridgeSend(Msg("frame", cam_id, jpeg, "absent", FALSE))

publish_detections(cam_id, detections, jpeg) ==
    BridgeSend(Msg("detection", cam_id, jpeg, detections, FALSE))

\* Another peer of the PULL socket, or a later version of the producer.
ForeignSend(m) == BridgeSend(m)

BridgeInit ==
    /\ chan = <<>>
    /\ nSent = 0
    /\ sendBlocked = FALSE
    /\ droppedIds = {}
    /\ r_running = FALSE
    /\ rtask = "none"
    /\ rCancelReq = FALSE
    /\ rStopCalled = FALSE
    /\ taken = <<>>
    /\ rlast = "none"
    /\ rpublished = <<>>
    /\ handlers = [i \in 1..MaxSent |-> "none"]
    /\ handed = {}
    /\ rstop = "none"
    /\ r_sock = "none"

\* DeepStreamReceiver.start: on a running receiver it returns at once;
\* otherwise it opens the context and the socket and creates the task.
RStart ==
    IF r_running
    THEN UNCHANGED vars
    ELSE /\ rtask = "none"
         /\ r_running' = TRUE
         /\ r_sock' = "open"
         /\ rtask' = "start"
         /\ UNCHANGED <<streamVars, hubVars, workerVars, filterVars, chan, nSent,
                        sendBlocked, droppedIds, rCancelReq, rStopCalled, rstop,
                        taken, rlast, rpublished, handlers, handed>>

\* DeepStreamReceiver.stop up to its await of the task
RStop ==
    /\ rtask # "none" /\ ~rStopCalled
    /\ rStopCalled' = TRUE
    /\ rstop' = "awaiting"
    /\ r_running' = FALSE
    /\ rCancelReq' = (rtask # "done")
    /\ UNCHANGED <<streamVars, hubVars, workerVars, filterVars, chan, nSent,
                   sendBlocked, droppedIds, rtask, taken, rlast, rpublished,
                   handlers, handed, r_sock>>

sock_close_skipped == "open"

\* self._sock.close() and self._ctx.term()
sock_close == "closed"

\* The task has ended and "await self._task" returns or raises
\* CancelledError, which stop catches: the socket and the context are
\* closed and stop returns.
RStopReturn ==
    /\ rstop = "awaiting" /\ rtask = "done"
    /\ rstop' = "returned"
    /\ r_sock' = (IF r_sock = "open" THEN sock_close ELSE r_sock)
    /\ UNCHANGED <<streamVars, hubVars, workerVars, filterVars, chan, nSent,
                   sendBlocked, droppedIds, r_running, rtask, rCancelReq,
                   rStopCalled, taken, rlast, rpublished, handlers, handed>>

\* The event loop runs the callbacks in the order in which they were
\* scheduled: the first step of a _handle_detections task, scheduled by
\* create_task, comes before the wake-up that a later Task.cancel schedules.
\* The task resumes with CancelledError: in recv and in a send of
\* broadcast_bytes line 89 breaks the loop, in the sleep of line 93 the error
\* leaves the except block; the task ends either way.
RCancelDeliver ==
    /\ rCancelReq /\ rtask \notin {"none", "done"}
    /\ \A i \in 1..MaxSent : handlers[i] # "start"
    /\ rCancelReq' = FALSE
    /\ rtask' = "done"
    /\ ppc' = [ppc EXCEPT ![RecvPub] = "idle"]
    /\ sendq' = AbandonSends(RecvPub)
    /\ UNCHANGED <<streamVars, workerVars, filterVars, connections, wsState,
                   wsChan, inbox, nMsg, pch, pmsg, snapshot, todo, dead, completed,
                   finishedAt, prunedBy, chan, nSent, sendBlocked, droppedIds,
                   r_running, rStopCalled, rstop, r_sock, taken, rlast, rpublished, handlers,
                   handed>>

\* The task's first step: "while self._running" and the await of recv.
RBegin ==
    /\ rtask = "start" /\ ~rCancelReq
    /\ rtask' = (IF r_running THEN "recv" ELSE "done")
    /\ UNCHANGED <<streamVars, hubVars, workerVars, filterVars, chan, nSent,
                   sendBlocked, droppedIds, r_running, rCancelReq, rStopCalled, rstop, r_sock,
                   taken, rlast, rpublished, handlers, handed>>

\* The receiver's task is suspended in wait_for(self._sock.recv()).
AwaitingRecv == rtask = "recv" /\ ppc[RecvPub] = "idle"

AfterRecvError_escapes == "done"

\* "except Exception" of _recv_loop: log, then await asyncio.sleep(0.5)
AfterRecvError == "err_sleep"

\* wait_for raises TimeoutError: "continue", and recv is awaited again.
RecvTimeout ==
    /\ AwaitingRecv /\ ~rCancelReq
    /\ chan = <<>>
    /\ rlast' = "timeout"
    /\ UNCHANGED <<streamVars, hubVars, workerVars, filterVars, chan, nSent,
                   sendBlocked, droppedIds, r_running, rtask, rCancelReq,
                   rStopCalled, rstop, r_sock, taken, rpublished, handlers, handed>>

\* recv raises an error of the socket.
RecvError ==
    /\ AwaitingRecv /\ ~rCancelReq
    /\ rtask' = AfterRecvError
    /\ rlast' = "chan_error"
    /\ UNCHANGED <<streamVars, hubVars, workerVars, filterVars, chan, nSent,
                   sendBlocked, droppedIds, r_running, rCancelReq, rStopCalled, rstop, r_sock,
                   taken, rpublished, handlers, handed>>

\* The channel of a frame message: f"camera:{camera_id}", camera_id being
\* msg.get("camera_id", "").
FrameChannel_fixed(m) == 1

FrameChannel(m) == m.cam

\* "if jpeg" and "if detections": None and the empty value are both false.
Truthy(v) == v \notin {"absent", "empty"}

\* What the body of the try block does with the message recv has returned.
Dispatch(m) ==
    CASE m.type = "garbage" -> "raise"
      [] m.type = "frame" /\ Truthy(m.jpeg) -> "broadcast"
      [] m.type = "detection" /\ Truthy(m.dets) -> "handle"
      [] OTHER -> "skip"

\* recv has returned the message at the head of the queue, and the loop runs
\* to its next await: a send of broadcast_bytes, the sleep of line 93, or recv.
RecvDone ==
    /\ AwaitingRecv /\ ~rCancelReq
    /\ chan # <<>>
    /\ LET m == Head(chan) IN
       /\ chan' = Tail(chan)
       /\ taken' = Append(taken, m)
       /\ CASE Dispatch(m) = "raise" ->
                 /\ rtask' = AfterRecvError
                 /\ rlast' = "decode"
                 /\ UNCHANGED <<hubVars, rpublished, handlers>>
            [] Dispatch(m) = "broadcast" ->
                 /\ PublishBeginCore(RecvPub, FrameChannel(m))
                 /\ rpublished' = Append(rpublished,
                                         [id |-> m.id, ch |-> FrameChannel(m),
                                          msg |-> nMsg + 1])
                 /\ rlast' = "ok"
                 /\ UNCHANGED <<rtask, handlers>>
            [] Dispatch(m) = "handle" ->
                 /\ handlers' = [handlers EXCEPT ![m.id] = "start"]
                 /\ rlast' = "ok"
                 /\ UNCHANGED <<hubVars, rtask, rpublished>>
            [] Dispatch(m) = "skip" ->
                 /\ rlast' = "ok"
                 /\ UNCHANGED <<hubVars, rtask, rpublished, handlers>>
    /\ UNCHANGED <<streamVars, workerVars, filterVars, nSent, sendBlocked,
                   droppedIds, r_running, rCancelReq, rStopCalled, rstop, r_sock, handed>>

\* The sleep of line 93 is over: "while self._running" and recv again.
RecvErrSleepDone ==
    /\ rtask = "err_sleep" /\ ~rCancelReq
    /\ rtask' = (IF r_running THEN "recv" ELSE "done")
    /\ UNCHANGED <<streamVars, hubVars, workerVars, filterVars, chan, nSent,
                   sendBlocked, droppedIds, r_running, rCancelReq, rStopCalled, rstop, r_sock,
                   taken, rlast, rpublished, handlers, handed>>

\* A send of the receiver's broadcast_bytes returns or raises.
RecvSend(w, ok) ==
    /\ rtask = "recv" /\ ~rCancelReq
    /\ Send(RecvPub, w, ok)

\* The methods that class DetectionWorker defines.
DetectionWorkerMethods ==
    {"__init__", "start", "stop", "_run_loop", "_process_active_cameras",
     "_process_results", "_map_class_to_event_type", "_create_event"}

\* _handle_detections: detection_worker.handle_deepstream_event is looked up
\* and awaited inside "try ... except Exception"; a method the class does not
\* define raises AttributeError, which line 111 catches and logs.
HandleDetections(i) ==
    /\ handlers[i] = "start"
    /\ handlers' = [handlers EXCEPT ![i] = "done"]
    /\ handed' = IF "handle_deepstream_event" \in DetectionWorkerMethods
                 THEN handed \cup {i} ELSE handed
    /\ UNCHANGED <<streamVars, hubVars, workerVars, filterVars, chan, nSent,
                   sendBlocked, droppedIds, r_running, rtask, rCancelReq,
                   rStopCalled, rstop, r_sock, taken, rlast, rpublished>>

\* The steps of the task DeepStreamReceiver._task and of the tasks it creates.
ReceiverTask ==
    \/ RCancelDeliver
    \/ RBegin
    \/ RecvTimeout
    \/ RecvError
    \/ RecvDone
    \/ RecvErrSleepDone
    \/ \E w \in RecvSockets, ok \in BOOLEAN : RecvSend(w, ok)
    \/ \E i \in 1..MaxSent : HandleDetections(i)

BridgeNext ==
    \/ \E c \in Channels, jpeg \in {"empty", "data"} : publish_frame(c, jpeg)
    \/ \E c \in Channels, d \in {"empty", "some"} : publish_detections(c, d, "absent")
    \/ \E m \in ForeignMsgs : ForeignSend(m)
    \/ RStart
    \/ RStop
    \/ RStopReturn
    \/ ReceiverTask
    \/ \E w \in RecvSockets, ch \in Channels : Connect(w, ch)
    \/ \E w \in RecvSockets : Disconnect(w)

WorkerFullInit ==
    /\ limits = [cams |-> 1, sups |-> 1, log |-> 0, frames |-> 0,
                 events |-> MaxEvents, sent |-> MaxSent, msgs |-> AllMsgs,
                 wcams |-> NumWCams, time |-> MaxTime,
                 poll |-> "env",
                 urls |-> 1, fps |-> 1, callers |-> NumCallers]
    /\ StreamInit
    /\ DbInit
    /\ TrackInit
    /\ HubInit
    /\ WorkerInit
    /\ FilterIdle
    /\ BridgeInit

WorkerSpec == WorkerFullInit /\ [][WorkerNext]_vars

FairWorkerInit ==
    /\ limits = [cams |-> 1, sups |-> 1, log |-> 0, frames |-> 0,
                 events |-> FairEvents, sent |-> MaxSent, msgs |-> AllMsgs,
                 wcams |-> FairCams, time |-> FairTime,
                 poll |-> "env",
                 urls |-> 1, fps |-> 1, callers |-> NumCallers]
    /\ StreamInit
    /\ DbInit
    /\ TrackInit
    /\ HubInit
    /\ WorkerInit
    /\ FilterIdle
    /\ BridgeInit

\* The event loop resumes a task whose awaited call has returned or raised,
\* and awaited calls and sleeps end.
FairWorkerSpec == FairWorkerInit /\ [][WorkerNext]_vars /\ WF_vars(WorkerTask)

\* The worker with one camera and one event, without fairness.
SmallWorkerSpec == FairWorkerInit /\ [][WorkerNext]_vars

\* One camera, a stopped clock, and events whose notification tasks run.
NotifyInit ==
    /\ limits = [cams |-> 1, sups |-> 1, log |-> 0, frames |-> 0,
                 events |-> MaxEvents, sent |-> MaxSent, msgs |-> AllMsgs,
                 wcams |-> FairCams, time |-> 0,
                 poll |-> "env",
                 urls |-> 1, fps |-> 1, callers |-> NumCallers]
    /\ StreamInit
    /\ DbInit
    /\ TrackInit
    /\ HubInit
    /\ WorkerInit
    /\ FilterIdle
    /\ BridgeInit

\* The event loop resumes the worker's task whenever its awaited call has
\* ended; nothing makes a notification channel answer.
NotifySpec == NotifyInit /\ [][NotifyNext]_vars /\ WF_vars(VehicleWorkerTask)

HubFullInit ==
    /\ limits = [cams |-> 1, sups |-> 1, log |-> 0, frames |-> 0,
                 events |-> MaxEvents, sent |-> MaxSent, msgs |-> AllMsgs,
                 wcams |-> NumWCams, time |-> MaxTime,
                 poll |-> "env",
                 urls |-> 1, fps |-> 1, callers |-> NumCallers]
    /\ StreamInit
    /\ DbInit
    /\ TrackInit
    /\ HubInit
    /\ WorkerInit
    /\ FilterIdle
    /\ BridgeInit

HubSpec == HubFullInit /\ [][HubNext]_vars

\* The registry with several supervisors, each followed for a few failures.
RegistryInit ==
    /\ limits = [cams |-> RegCams, sups |-> RegSups, log |-> RegLog,
                 frames |-> RegFrames,
                 events |-> MaxEvents, sent |-> MaxSent, msgs |-> AllMsgs,
                 wcams |-> NumWCams, time |-> MaxTime,
                 poll |-> "env",
                 urls |-> 1, fps |-> 1, callers |-> NumCallers]
    /\ StreamInit
    /\ DbInit
    /\ TrackInit
    /\ HubInit
    /\ WorkerInit
    /\ FilterIdle
    /\ BridgeInit

\* One supervisor followed through a long run of failures.
SupervisorInit ==
    /\ limits = [cams |-> 1, sups |-> 1, log |-> SupLog,
                 frames |-> SupFrames,
                 events |-> MaxEvents, sent |-> MaxSent, msgs |-> AllMsgs,
                 wcams |-> NumWCams, time |-> MaxTime,
                 poll |-> "env",
                 urls |-> 1, fps |-> 1, callers |-> NumCallers]
    /\ StreamInit
    /\ DbInit
    /\ TrackInit
    /\ HubInit
    /\ WorkerInit
    /\ FilterIdle
    /\ BridgeInit

\* One camera document and one inference result.
FilterFullInit ==
    /\ limits = [cams |-> 1, sups |-> 1, log |-> 0, frames |-> 0,
                 events |-> MaxEvents, sent |-> MaxSent, msgs |-> AllMsgs,
                 wcams |-> NumWCams, time |-> MaxTime,
                 poll |-> "env",
                 urls |-> 1, fps |-> 1, callers |-> NumCallers]
    /\ StreamInit
    /\ DbInit
    /\ TrackInit
    /\ HubInit
    /\ WorkerInit
    /\ FilterInit
    /\ BridgeInit

FilterSpec == FilterFullInit /\ [][FilterNext]_vars

\* Few messages of every shape.
BridgeFullInit ==
    /\ limits = [cams |-> 1, sups |-> 1, log |-> 0, frames |-> 0,
                 events |-> MaxEvents, sent |-> BridgeSent, msgs |-> AllMsgs,
                 wcams |-> NumWCams, time |-> MaxTime,
                 poll |-> "env",
                 urls |-> 1, fps |-> 1, callers |-> NumCallers]
    /\ StreamInit
    /\ DbInit
    /\ TrackInit
    /\ HubInit
    /\ WorkerInit
    /\ FilterIdle
    /\ BridgeInit

BridgeSpec == BridgeFullInit /\ [][BridgeNext]_vars

\* More messages than the queue holds, of few shapes.
ChannelInit ==
    /\ limits = [cams |-> 1, sups |-> 1, log |-> 0, frames |-> 0,
                 events |-> MaxEvents, sent |-> MaxSent, msgs |-> CoreMsgs,
                 wcams |-> NumWCams, time |-> MaxTime,
                 poll |-> "env",
                 urls |-> 1, fps |-> 1, callers |-> NumCallers]
    /\ StreamInit
    /\ DbInit
    /\ TrackInit
    /\ HubInit
    /\ WorkerInit
    /\ FilterIdle
    /\ BridgeInit

ChannelSpec == ChannelInit /\ [][BridgeNext]_vars

FairBridgeInit ==
    /\ limits = [cams |-> 1, sups |-> 1, log |-> 0, frames |-> 0,
                 events |-> MaxEvents, sent |-> FairSent, msgs |-> CoreMsgs,
                 wcams |-> NumWCams, time |-> MaxTime,
                 poll |-> "env",
                 urls |-> 1, fps |-> 1, callers |-> NumCallers]
    /\ StreamInit
    /\ DbInit
    /\ TrackInit
    /\ HubInit
    /\ WorkerInit
    /\ FilterIdle
    /\ BridgeInit

\* The event loop resumes a task whose awaited call has returned or raised;
\* receives, sends to a live viewer and sleeps end.
FairBridgeSpec == FairBridgeInit /\ [][BridgeNext]_vars /\ WF_vars(ReceiverTask)

RegistrySpec == RegistryInit /\ [][StreamNext]_vars

\* One camera whose callers pass different addresses and frame rates.
ConfigInit ==
    /\ limits = [cams |-> 1, sups |-> CfgSups, log |-> 1, frames |-> 1,
                 events |-> MaxEvents, sent |-> MaxSent, msgs |-> AllMsgs,
                 wcams |-> NumWCams, time |-> MaxTime,
                 poll |-> "env",
                 urls |-> NumUrls, fps |-> NumFps, callers |-> 1]
    /\ StreamInit
    /\ DbInit
    /\ TrackInit
    /\ HubInit
    /\ WorkerInit
    /\ FilterIdle
    /\ BridgeInit

ConfigSpec == ConfigInit /\ [][ConfigNext]_vars

\* One camera that answers, stopped and started by callers that run
\* concurrently.
StopInit ==
    /\ limits = [cams |-> 1, sups |-> StopSups, log |-> 1, frames |-> 1,
                 events |-> MaxEvents, sent |-> MaxSent, msgs |-> AllMsgs,
                 wcams |-> NumWCams, time |-> MaxTime,
                 poll |-> "env",
                 urls |-> 1, fps |-> 1, callers |-> 2]
    /\ StreamInit
    /\ DbInit
    /\ TrackInit
    /\ HubInit
    /\ WorkerInit
    /\ FilterIdle
    /\ BridgeInit

StopSpec == StopInit /\ [][ConfigNext]_vars

\* The shutdown of main.lifespan: the cameras are started, then stop_all runs
\* and no other coroutine calls the registry.
ShutdownNext ==
    \/ HealthyTasks
    \/ \E k \in StreamCallers, c \in StreamCams, u \in Urls, f \in FpsValues :
           saEnd[k] = "none" /\ StartStream(k, c, u, f)
    \/ \E k \in StreamCallers : saEnd[k] = "none" /\ StopAll(k)
    \/ \E k \in StreamCallers : StopAllNext(k)
    \/ \E k \in StreamCallers : StopAllRaise(k)

ShutdownInit ==
    /\ limits = [cams |-> RegCams, sups |-> RegSups, log |-> 1, frames |-> 1,
                 events |-> MaxEvents, sent |-> MaxSent, msgs |-> AllMsgs,
                 wcams |-> NumWCams, time |-> MaxTime,
                 poll |-> "env",
                 urls |-> 1, fps |-> 1, callers |-> 1]
    /\ StreamInit
    /\ DbInit
    /\ TrackInit
    /\ HubInit
    /\ WorkerInit
    /\ FilterIdle
    /\ BridgeInit

ShutdownSpec == ShutdownInit /\ [][ShutdownNext]_vars

\* update_camera restarts a camera that answers while other route handlers
\* start it.
RestartNext ==
    \/ HealthyTasks
    \/ \E k \in StreamCallers, c \in StreamCams, u \in Urls, f \in FpsValues :
           StartStream(k, c, u, f)
    \/ \E k \in StreamCallers, c \in StreamCams, u \in Urls, f \in FpsValues :
           RestartStream(k, c, u, f)
    \/ \E k \in StreamCallers : StopReturn(k)

RestartInit ==
    /\ limits = [cams |-> 1, sups |-> RegSups, log |-> 1, frames |-> 1,
                 events |-> MaxEvents, sent |-> MaxSent, msgs |-> AllMsgs,
                 wcams |-> NumWCams, time |-> MaxTime,
                 poll |-> "env",
                 urls |-> NumUrls, fps |-> 1, callers |-> NumCallers]
    /\ StreamInit
    /\ DbInit
    /\ TrackInit
    /\ HubInit
    /\ WorkerInit
    /\ FilterIdle
    /\ BridgeInit

RestartSpec == RestartInit /\ [][RestartNext]_vars

\* start() and stop() called on one CameraStream by coroutines that run
\* concurrently.
LifecycleNext ==
    \/ HealthyTasks
    \/ \E s \in SupIds : SupStart(s)
    \/ \E k \in StreamCallers, s \in SupIds : SupStop(k, s)
    \/ \E k \in StreamCallers : SupStopReturn(k)
    \/ \E s \in SupIds : OrphanCancelDeliver(s)
    \/ \E s \in SupIds, opened \in BOOLEAN : OrphanThreadExit(s, opened)

\* One CameraStream as __init__ leaves it, in no registry.
LifecycleInit ==
    /\ limits = [cams |-> 1, sups |-> 1, log |-> 1, frames |-> 1,
                 events |-> MaxEvents, sent |-> MaxSent, msgs |-> AllMsgs,
                 wcams |-> NumWCams, time |-> MaxTime,
                 poll |-> "env",
                 urls |-> 1, fps |-> 1, callers |-> NumCallers]
    /\ nSup = 1
    /\ streams = [c \in CameraIds |-> 0]
    /\ camera_id = [s \in SupIds |-> IF s = 1 THEN 1 ELSE 0]
    /\ running = [s \in SupIds |-> FALSE]
    /\ task = [s \in SupIds |-> "none"]
    /\ cancelReq = [s \in SupIds |-> FALSE]
    /\ thread = [s \in SupIds |-> "none"]
    /\ cap = [s \in SupIds |-> FALSE]
    /\ leaked = [s \in SupIds |-> 0]
    /\ latest_raw = [s \in SupIds |-> 0]
    /\ latest_frame = [s \in SupIds |-> 0]
    /\ nFrames = [s \in SupIds |-> 0]
    /\ backoff = [s \in SupIds |-> 0]
    /\ connected = [s \in SupIds |-> FALSE]
    /\ error_count = [s \in SupIds |-> 0]
    /\ reconnect_count = [s \in SupIds |-> 0]
    /\ log = [s \in SupIds |-> <<>>]
    /\ stopped = [s \in SupIds |-> FALSE]
    /\ cpc = [k \in Callers |-> "idle"]
    /\ cSup = [k \in Callers |-> 0]
    /\ cCam = [k \in Callers |-> 0]
    /\ ret = 0
    /\ rtsp_url = [s \in SupIds |-> IF s = 1 THEN 1 ELSE 0]
    /\ target_fps = [s \in SupIds |-> IF s = 1 THEN 1 ELSE 0]
    /\ cUrl = [k \in Callers |-> 0]
    /\ cFps = [k \in Callers |-> 0]
    /\ call = NoCall
    /\ saTodo = [k \in Callers |-> <<>>]
    /\ saAt = [k \in Callers |-> {}]
    /\ saEnd = [k \in Callers |-> "none"]
    /\ start_time = [s \in SupIds |-> 0]
    /\ otask = [s \in SupIds |-> "none"]
    /\ othread = [s \in SupIds |-> "none"]
    /\ cGen = [k \in Callers |-> 0]
    /\ sop = [s \in SupIds |-> "none"]
    /\ published = [s \in SupIds |-> <<>>]
    /\ inflight = [s \in SupIds |-> {}]
    /\ DbInit
    /\ TrackInit
    /\ HubInit
    /\ WorkerInit
    /\ FilterIdle
    /\ BridgeInit

LifecycleSpec == LifecycleInit /\ [][LifecycleNext]_vars

\* One camera followed for a few frames, with every failure of its calls.
FrameInit ==
    /\ limits = [cams |-> 1, sups |-> 1, log |-> PubLog, frames |-> PubFrames,
                 events |-> MaxEvents, sent |-> MaxSent, msgs |-> AllMsgs,
                 wcams |-> NumWCams, time |-> MaxTime,
                 poll |-> "env",
                 urls |-> 1, fps |-> 1, callers |-> 1]
    /\ StreamInit
    /\ DbInit
    /\ TrackInit
    /\ HubInit
    /\ WorkerInit
    /\ FilterIdle
    /\ BridgeInit

FrameSpec == FrameInit /\ [][StreamNext]_vars

\* The event loop wakes a task whose sleep is over.
SleepOver == \E s \in SupIds : BackoffWake(s)

RecoverSpec == FrameInit /\ [][StreamNext]_vars /\ WF_vars(SleepOver)

SupervisorSpec == SupervisorInit /\ [][StreamNext]_vars

(***************************************************************************)
(* routes/cameras.py                                                       *)
(*                                                                         *)
(* The requests are served one after the other: a handler begins when the  *)
(* one before it has returned.  A step of a handler is an awaited call of  *)
(* the collection together with the code up to the next await.             *)
(***************************************************************************)

\* The coroutine that runs the route handlers.
ApiCaller == CHOOSE k \in StreamCallers : TRUE

\* Everything but the documents and the handler's position.
restVars ==
    <<hubVars, workerVars, filterVars, bridgeVars, trackVars, cfgVars, shutVars,
      pubVars, lifeVars, limits, streams, nSup, camera_id, running, task,
      cancelReq, thread, cap, leaked, latest_raw, latest_frame, nFrames, backoff,
      connected, error_count, reconnect_count, log, stopped, cpc, cSup, cCam,
      ret>>

\* "await stream_manager.stop_stream(camera_id)" up to its await, or
\* through when the camera is not streaming; next is where the handler
\* goes on when the stop has returned.
ApiStopStream(c, next, en) ==
    IF is_streaming(c)
    THEN /\ StopStreamCall(ApiCaller, c)
         /\ api' = [pc |-> next, cam |-> c, enabled |-> en]
    ELSE /\ StopAbsentCall(ApiCaller, c)
         /\ api' = NoRequest

\* "if 'rtsp_url' in update_dict or 'fps' in update_dict" of update_camera
restarts(c, changed) == changed

\* The "if 'enabled' in update_dict" block of update_camera.
EnabledBlock(c, en) ==
    IF en = "on"
    THEN /\ StartStreamCall(ApiCaller, c, 1, 1)
         /\ api' = NoRequest
    ELSE ApiStopStream(c, "stopping", "unset")

\* create_camera: insert_one, then start_stream if camera.enabled.
create_camera(c, en) ==
    /\ api.pc = "idle" /\ cpc[ApiCaller] = "idle"
    /\ ~cameras[c].exists
    /\ cameras' = [cameras EXCEPT ![c] = Camera(en, TRUE, FALSE)]
    /\ UNCHANGED api
    /\ IF en
       THEN StartStreamCall(ApiCaller, c, 1, 1)
       ELSE UNCHANGED restVars

\* update_camera: find_one_and_update, then restart_stream when rtsp_url or
\* fps is in the update (changed), else the block for enabled; en is
\* "unset" when enabled is not in the update, else "on" or "off".
update_camera(c, changed, en) ==
    /\ api.pc = "idle" /\ cpc[ApiCaller] = "idle"
    /\ cameras[c].exists
    /\ changed \/ en # "unset"
    /\ cameras' = [cameras EXCEPT ![c].enabled = IF en = "unset" THEN @ ELSE en = "on"]
    /\ IF restarts(c, changed)
       THEN /\ RestartStreamCall(ApiCaller, c, 1, 1)
            /\ api' = IF is_streaming(c)
                      THEN [pc |-> "restarting", cam |-> c, enabled |-> en]
                      ELSE IF en = "unset" THEN NoRequest
                      ELSE [pc |-> "enabled", cam |-> c, enabled |-> en]
       ELSE IF en = "unset"
            THEN UNCHANGED <<api, restVars>>
            ELSE EnabledBlock(c, en)

\* restart_stream of update_camera has returned.
UpdateRestarted ==
    /\ api.pc = "restarting"
    /\ StopReturnCall(ApiCaller)
    /\ api' = IF api.enabled = "unset" THEN NoRequest
              ELSE [api EXCEPT !.pc = "enabled"]
    /\ UNCHANGED cameras

\* update_camera goes on with the block for enabled.
UpdateEnabled ==
    /\ api.pc = "enabled"
    /\ EnabledBlock(api.cam, api.enabled)
    /\ UNCHANGED cameras

\* The stop_stream a handler awaited has returned and the handler returns.
HandlerStopped ==
    /\ api.pc = "stopping"
    /\ StopReturnCall(ApiCaller)
    /\ api' = NoRequest
    /\ UNCHANGED cameras

\* delete_camera: stop_stream, then delete_one.
delete_camera(c) ==
    /\ api.pc = "idle" /\ cpc[ApiCaller] = "idle"
    /\ ApiStopStream(c, "deleting", "unset")
    /\ cameras' = IF is_streaming(c) THEN cameras
                  ELSE [cameras EXCEPT ![c] = NoCamera]

\* The stop_stream of delete_camera has returned: delete_one.
DeleteStopped ==
    /\ api.pc = "deleting"
    /\ StopReturnCall(ApiCaller)
    /\ api' = NoRequest
    /\ cameras' = [cameras EXCEPT ![api.cam] = NoCamera]

\* POST /{camera_id}/start: 404 without a document, nothing when the camera
\* is streaming, else start_stream.
start_stream_route(c) ==
    /\ api.pc = "idle" /\ cpc[ApiCaller] = "idle"
    /\ cameras[c].exists /\ ~is_streaming(c)
    /\ StartStreamCall(ApiCaller, c, 1, 1)
    /\ UNCHANGED dbVars

\* POST /{camera_id}/stop: nothing when the camera is not streaming.
stop_stream_route(c) ==
    /\ api.pc = "idle" /\ cpc[ApiCaller] = "idle"
    /\ is_streaming(c)
    /\ ApiStopStream(c, "stopping", "unset")
    /\ UNCHANGED cameras

\* The requests to routes/cameras.py while the cameras answer.
ApiNext ==
    \/ \E s \in SupIds : TaskBegin(s)
    \/ \E s \in SupIds : ConnectDone(s, "ok")
    \/ \E s \in SupIds : CancelDeliver(s)
    \/ \E s \in SupIds, opened \in BOOLEAN : ThreadExit(s, opened)
    \/ \E c \in StreamCams, en \in BOOLEAN : create_camera(c, en)
    \/ \E c \in StreamCams, changed \in BOOLEAN, en \in {"unset", "on", "off"} :
           update_camera(c, changed, en)
    \/ UpdateRestarted
    \/ UpdateEnabled
    \/ HandlerStopped
    \/ \E c \in StreamCams : delete_camera(c)
    \/ DeleteStopped
    \/ \E c \in StreamCams : start_stream_route(c)
    \/ \E c \in StreamCams : stop_stream_route(c)

\* No camera has a document and the registry is empty.
ApiInit ==
    /\ limits = [cams |-> ApiCams, sups |-> RegSups, log |-> 1, frames |-> 0,
                 events |-> MaxEvents, sent |-> MaxSent, msgs |-> AllMsgs,
                 wcams |-> NumWCams, time |-> MaxTime,
                 poll |-> "env",
                 urls |-> 1, fps |-> 1, callers |-> 1]
    /\ StreamInit
    /\ cameras = [c \in CameraIds |-> NoCamera]
    /\ api = NoRequest
    /\ TrackInit
    /\ HubInit
    /\ WorkerInit
    /\ FilterIdle
    /\ BridgeInit

ApiSpec == ApiInit /\ [][ApiNext]_vars

\* tracker.can_trigger(class_name, cooldown_secs) on the tracker of the
\* camera c, at the time the clock shows.
CanTrigger(c, class_name, cooldown_secs) ==
    /\ LET res == can_trigger(last_event_time[c], class_name, cooldown_secs, now) IN
       /\ last_event_time' = [last_event_time EXCEPT ![c] = res.table]
       /\ ct_call' = [cam |-> c, key |-> class_name, secs |-> cooldown_secs,
                      t |-> now, ret |-> res.ret, before |-> last_event_time]
    /\ UNCHANGED <<limits, streams, nSup, camera_id, running, task, cancelReq,
                   thread, cap, leaked, latest_raw, latest_frame, nFrames, backoff,
                   connected, error_count, reconnect_count, log, stopped, cpc,
                   cSup, cCam, ret, cfgVars, shutVars, lifeVars, pubVars, dbVars,
                   hubVars, workerVars, filterVars, bridgeVars>>

\* Calls of can_trigger on the trackers of the cameras as time passes.
CooldownNext ==
    \/ \E c \in CameraIds, k \in TriggerKeys, secs \in Windows : CanTrigger(c, k, secs)
    \/ \E d \in TickSteps : Tick(d)

CooldownInit ==
    /\ limits = [cams |-> 1, sups |-> 1, log |-> 0, frames |-> 0,
                 events |-> MaxEvents, sent |-> MaxSent, msgs |-> AllMsgs,
                 wcams |-> NumWCams, time |-> MaxTime,
                 poll |-> "env",
                 urls |-> 1, fps |-> 1, callers |-> NumCallers]
    /\ StreamInit
    /\ DbInit
    /\ TrackInit
    /\ HubInit
    /\ WorkerInit
    /\ FilterIdle
    /\ BridgeInit

CooldownSpec == CooldownInit /\ [][CooldownNext]_vars

\* The steps of the worker's task when the query and every call after the
\* inference succeed, every detection is a vehicle and no summarizer is
\* configured.
PollTask ==
    \/ WBegin
    \/ FetchDone("ok")
    \/ \E r \in {"empty", "vehicle"} : PredictDone(r, FALSE)
    \/ SnapshotDone("ok")
    \/ LlmSettingsDone("absent")
    \/ CreateDone("ok")
    \/ SleepDone

\* The worker polls the registry while cameras are started, connect, lose
\* their connection and deliver frames.
PollNext ==
    \/ \E s \in SupIds : TaskBegin(s)
    \/ \E s \in SupIds, r \in {"ok", "fail"} : ConnectDone(s, r)
    \/ \E s \in SupIds : BackoffWake(s)
    \/ \E s \in SupIds, r \in {"frame", "fail"} : ReadDone(s, r)
    \/ \E s \in SupIds : EncodeDone(s, "jpeg")
    \/ \E s \in SupIds : PublishDone(s)
    \/ \E s \in SupIds : ThrottleWake(s)
    \/ \E k \in StreamCallers, c \in StreamCams, u \in Urls, f \in FpsValues :
           StartStream(k, c, u, f)
    \/ WStart
    \/ PollTask

\* The documents a camera may have in a polling cycle.
PollDocs ==
    {Camera(TRUE, TRUE, FALSE), Camera(FALSE, TRUE, FALSE),
     Camera(TRUE, FALSE, FALSE)}

PollInit ==
    /\ limits = [cams |-> PollCams, sups |-> 2, log |-> 1, frames |-> 1,
                 events |-> 1, sent |-> MaxSent, msgs |-> AllMsgs,
                 wcams |-> PollCams, time |-> 0,
                 poll |-> "registry",
                 urls |-> 1, fps |-> 1, callers |-> 1]
    /\ StreamInit
    /\ cameras \in [CameraIds -> PollDocs]
    /\ api = NoRequest
    /\ TrackInit
    /\ HubInit
    /\ WorkerInit
    /\ FilterIdle
    /\ BridgeInit

PollSpec == PollInit /\ [][PollNext]_vars

(***************************************************************************)
(* Properties of the stream registry and of the supervisor                 *)
(***************************************************************************)

LiveSupervisors(c) == {s \in SupIds : camera_id[s] = c /\ Live(s)}

\* C1: under any interleaving of start_stream, stop_stream and restart_stream
\* there is never more than one supervisor with a live capture loop (a task
\* that has not ended) for the same camera id.
C1_OneLiveSupervisorPerCamera ==
    \A c \in CameraIds : Cardinality(LiveSupervisors(c)) <= 1

\* C4: a reader of get_raw_frame and get_snapshot gets the raw form and the
\* encoded form of the same captured frame, never the raw form of one frame
\* with the encoded form of another.
C4_ReaderSeesOneFrame ==
    \A c \in CameraIds :
        (ReaderView(c)[1] # 0 /\ ReaderView(c)[2] # 0)
            => ReaderView(c)[1] = ReaderView(c)[2]

\* C5: after CameraStream.stop() has returned, no VideoCapture opened by that
\* supervisor is still open, wherever the cancellation reached the loop.
C5_NoHandleAfterStop ==
    \A s \in SupIds : stopped[s] => (~cap[s] /\ leaked[s] = 0)

\* The delays the claim C6 lists: 2, 4, 8, 16, 30 and then 30 for ever.
BackoffSchedule == <<2, 4, 8, 16, 30>>

ExpectedDelay(n) == IF n <= Len(BackoffSchedule) THEN BackoffSchedule[n] ELSE 30

NoSuccessUpTo(lg, i) == \A j \in 1..i : lg[j] # 0

\* C6: the backoff delays of consecutive failures with no success between
\* them are 2, 4, 8, 16, 30 and then 30 for every further failure.
C6_BackoffSequence ==
    \A s \in SupIds : \A i \in 1..Len(log[s]) :
        NoSuccessUpTo(log[s], i) => log[s][i] = ExpectedDelay(i)

C6_Witness ==
    \E s \in SupIds :
        /\ Len(log[s]) >= 7
        /\ NoSuccessUpTo(log[s], 7)
        /\ log[s][5] = 30 /\ log[s][7] = 30

\* C7: after N >= 1 failures and then a successful connect, the next failure
\* sleeps the initial backoff of 2 seconds.
C7_BackoffRestartsAfterSuccess ==
    \A s \in SupIds : \A i \in 2..Len(log[s]) :
        (log[s][i] # 0 /\ log[s][i - 1] = 0 /\ \E j \in 1..(i - 1) : log[s][j] # 0)
            => log[s][i] = INITIAL_BACKOFF

C7_Witness ==
    \E s \in SupIds :
        /\ Len(log[s]) >= 7
        /\ log[s][5] = 30
        /\ log[s][6] = 0
        /\ log[s][7] = 2

(***************************************************************************)
(* Properties of the connection manager                                    *)
(***************************************************************************)

Received(w) == {inbox[w][i] : i \in 1..Len(inbox[w])}

\* C3: when a broadcast to N subscribers has returned and delivery to exactly
\* one of them failed, the other N-1 have received the message; the failed
\* one is in no snapshot that a later broadcast takes of that channel; and a
\* broadcast discards nobody before its pass over all subscribers has ended.
C3_FailedSubscriberPrunedAfterPass ==
    \A p \in Pubs :
        /\ (completed[p] /\ Cardinality(dead[p]) = 1) =>
               /\ \A w \in snapshot[p] \ dead[p] : pmsg[p] \in Received(w)
               /\ dead[p] \cap Members(connections, pch[p]) = {}
               /\ \A q \in Pubs :
                      (pch[q] = pch[p] /\ pmsg[q] > finishedAt[p])
                          => dead[p] \cap snapshot[q] = {}
        /\ ppc[p] = "sending" => prunedBy[p] = {}

C3_Witness ==
    \E p, q \in Pubs :
        /\ completed[p] /\ Cardinality(snapshot[p]) = 3 /\ Cardinality(dead[p]) = 1
        /\ prunedBy[p] = dead[p]
        /\ pch[q] = pch[p] /\ pmsg[q] > finishedAt[p]
        /\ Cardinality(snapshot[q]) = 2

(***************************************************************************)
(* Properties of the detection worker                                      *)
(***************************************************************************)

\* C2: two detections for the same camera and mapped category processed at
\* times t < t' less than the cooldown window apart give one persisted
\* event, not two.
C2_OneEventPerCooldownWindow ==
    \A i, j \in 1..Len(events) :
        (/\ events[i].cam = events[j].cam /\ events[i].key = events[j].key
         /\ events[i].t < events[j].t)
            => events[j].t - events[i].t >= EVENT_COOLDOWN_SECONDS

\* C8: when the primary detection is a person and the identity match fails
\* (the embedder raises or returns none, or the index query raises), an event
\* is still created, with category person and no face id.
C8_EventDespiteIdentityFailure ==
    (/\ last.idFail \in {"embed_raise", "embed_none", "match_raise"}
     /\ last.result \notin {"pending", "create_failed"})
        => (last.result = "event" /\ last.type = "person" /\ last.face = 0)

\* C9: a failure of the inference or of the result processing for one camera
\* does not keep the other cameras of the cycle from being polled: when the
\* cycle is over the for loop has reached every camera of the cycle.
C9_CycleReachesEveryCamera ==
    wtask \in {"sleep", "err_sleep"} => visited = cycleCams

\* C10: once started (wtask is no longer "none") the polling loop ends only
\* through stop(): an exception raised in a cycle is followed by a sleep and
\* another cycle, so unless stop() is called a further cycle always starts.
C10_LoopEndsOnlyOnStop ==
    /\ [](wtask = "done" => stopCalled)
    /\ []<>(wtask = "none" \/ stopCalled \/ wtask = "fetch")

C10_Witness ==
    errSeen /\ wtask = "fetch" /\ ~stopCalled

(***************************************************************************)
(* Properties of the bridge and of its receiver                            *)
(***************************************************************************)

TakenMsgs == {taken[i] : i \in 1..Len(taken)}

PublishesOf(m) == {k \in 1..Len(rpublished) : rpublished[k].id = m.id}

\* C11: every detection message with a non-empty detection list that the
\* receiver has taken off the channel gets a handler task, and a handler task
\* that has ended has handed its detections to the detection worker's event
\* construction.
C11_DetectionsReachEventConstruction ==
    \A m \in TakenMsgs :
        (m.type = "detection" /\ m.dets = "some") =>
            /\ handlers[m.id] # "none"
            /\ handlers[m.id] = "done" => m.id \in handed

\* C12: every frame message with a non-empty image for camera c that the
\* receiver has taken is published exactly once, to the channel of camera c;
\* and what is published to a channel reaches only sockets of that channel.
C12_FramePublishedOnceToItsChannel ==
    /\ \A m \in TakenMsgs :
           (m.type = "frame" /\ m.jpeg = "data" /\ m.cam \in Channels) =>
               /\ Cardinality(PublishesOf(m)) = 1
               /\ \A k \in PublishesOf(m) : rpublished[k].ch = m.cam
    /\ \A k \in 1..Len(rpublished) : \A w \in Sockets :
           rpublished[k].msg \in Received(w) => wsChan[w] = rpublished[k].ch

C12_Witness ==
    \E m \in TakenMsgs : \E k \in PublishesOf(m) :
        /\ m.type = "frame" /\ m.jpeg = "data" /\ m.cam = 2
        /\ rpublished[k].ch = 2
        /\ \E w \in Sockets : wsChan[w] = 2 /\ rpublished[k].msg \in Received(w)
        /\ nSup = 0

ChanIds == {chan[i].id : i \in 1..Len(chan)}

TakenIds == {taken[i].id : i \in 1..Len(taken)}

C14_ReceiverLoopsPastErrors ==
    /\ [](rtask = "done" => rStopCalled)
    /\ [](rtask = "err_sleep" => <>(AwaitingRecv \/ rStopCalled))

C14_Witness ==
    /\ rlast = "decode" /\ AwaitingRecv /\ ~rStopCalled
    /\ \E i \in 1..MaxSent : handlers[i] = "done" /\ i \notin handed

MissingRequired(m) ==
    \/ m.type \in {"absent", "garbage"}
    \/ m.cam = 0
    \/ m.type = "frame" /\ m.jpeg = "absent"
    \/ m.type = "detection" /\ m.dets = "absent"

\* C15: a message that lacks type, camera_id or its payload causes no publish
\* and no handler task, and the loop goes on; a frame message with unknown
\* additional keys is published like one without them.
C15_MalformedMessageSkipped ==
    /\ \A m \in TakenMsgs :
           MissingRequired(m) => (PublishesOf(m) = {} /\ handlers[m.id] = "none")
    /\ \A m \in TakenMsgs :
           (m.extra /\ m.type = "frame" /\ m.jpeg = "data" /\ m.cam \in Channels)
               => \E k \in PublishesOf(m) : rpublished[k].ch = m.cam
    /\ rtask = "done" => rStopCalled

(***************************************************************************)
(* Properties of the result processing and of the event construction       *)
(***************************************************************************)

CategoryEnabled(i) == map_class_to_event_type(f_boxes[i].cls) \in f_classes

Accepted == {f_out.objs[k] : k \in 1..Len(f_out.objs)}

\* C16: a detection whose mapped category is enabled for the camera is
\* accepted if its confidence is equal to or greater than the threshold and
\* rejected if it is below.
C16_ThresholdInclusive ==
    f_out.outcome # "pending" =>
        \A i \in 1..Len(f_boxes) :
            CategoryEnabled(i) =>
                /\ f_boxes[i].conf >= f_threshold => i \in Accepted
                /\ f_boxes[i].conf < f_threshold => i \notin Accepted

C16_Witness ==
    /\ f_out.outcome # "pending"
    /\ f_threshold > 0
    /\ \E i, j \in 1..Len(f_boxes) :
           /\ CategoryEnabled(i) /\ f_boxes[i].conf = f_threshold /\ i \in Accepted
           /\ CategoryEnabled(j) /\ f_boxes[j].conf = f_threshold - 1 /\ j \notin Accepted

Survivors ==
    {i \in 1..Len(f_boxes) : CategoryEnabled(i) /\ f_boxes[i].conf >= f_threshold}

\* C17: if no detection survives the filters no event is produced; if one
\* does, an event is produced whose category, confidence and bounding box
\* are those of a survivor of maximum confidence, whatever the threshold
\* and the confidences are.
C17_PrimaryIsBestSurvivor ==
    f_out.outcome # "pending" =>
        /\ Survivors = {} => f_out.outcome = "returned"
        /\ Survivors # {} =>
               /\ f_out.outcome = "event"
               /\ f_out.primary_bbox \in Survivors
               /\ \A i \in Survivors :
                      f_boxes[i].conf <= f_boxes[f_out.primary_bbox].conf
               /\ f_out.highest_conf = f_boxes[f_out.primary_bbox].conf
               /\ f_out.highest_conf_class =
                      map_class_to_event_type(f_boxes[f_out.primary_bbox].cls)

\* The events persisted before the detection being processed.
EarlierEvents ==
    1..(IF last.result = "event" THEN Len(events) - 1 ELSE Len(events))

\* The detection being processed follows a trigger for the same camera and
\* category by less than the cooldown window: an event for them is persisted
\* already, and less than the window has passed since the clock was 0.
InCooldown ==
    /\ last.result # "none"
    /\ now < EVENT_COOLDOWN_SECONDS
    /\ \E i \in EarlierEvents :
           events[i].cam = cur.cam /\ events[i].key = cur.key

\* C18: a detection inside the cooldown window of its camera and category is
\* discarded with no side effect: no snapshot, no identity record created or
\* updated, no embedding enrolled, no event, no notification.
C18_DiscardedDetectionHasNoEffect ==
    InCooldown => last.effects = {}

\* C19: every persisted event has been published to the connection manager
\* by the time its notification is dispatched: at least as many broadcasts
\* have begun as events are persisted.
C19_PersistedEventPublished ==
    Len(events) <= nMsg

SummarizerFailed(l) == l \in {"absent", "raise", "empty"}

Unfinished(i) == notif[i] \in {"start", "settings", "sending", "failed"}

\* C21: the step that persists an event creates the notification task and
\* goes on with the polling loop without waiting for it; while a dispatch is
\* failed or has not completed, another polling cycle starts (unless stop()
\* is called); a dispatch that has ended, failed or not, is never started again,
\* and there is one dispatch per persisted event at most.
C21_DispatchDetached ==
    /\ [][Len(events') > Len(events) =>
              (notif'[Len(events')] = "start" /\ wtask' \in {"predict", "sleep"})]_vars
    /\ \A i \in 1..MaxEvents : (Unfinished(i) ~> (wtask = "fetch" \/ stopCalled))
    /\ [][\A i \in 1..MaxEvents :
              notif[i] \in {"done", "failed"} => notif'[i] = notif[i]]_vars
    /\ [](\A i \in 1..MaxEvents : notif[i] # "none" => i <= Len(events))

C21_Witness ==
    /\ Len(events) = 2
    /\ notif[1] = "failed" /\ notif[2] = "settings"
    /\ wtask = "fetch" /\ ~stopCalled

(***************************************************************************)
(* Properties of the registry's operations                                 *)
(***************************************************************************)

\* What can be observed of a supervisor: its configuration, its task, its
\* capture, its health and its latest frame.
SupervisorView(s) ==
    <<camera_id[s], rtsp_url[s], target_fps[s], running[s], task[s], cancelReq[s],
      thread[s], cap[s], leaked[s], backoff[s], connected[s], error_count[s],
      reconnect_count[s], latest_raw[s], latest_frame[s], nFrames[s], stopped[s]>>

C24_StopAllStopsEverySupervisor ==
    \A k \in Callers :
        saEnd[k] \in {"returned", "raised"} =>
            \A s \in saAt[k] : task[s] = "done" /\ streams[camera_id[s]] # s

\* C25: the supervisor that restart_stream returns, and that the registry
\* then holds for the id, was constructed by this call, has the rtsp_url and
\* the fps of the call and has the health that __init__ gives.
C25_RestartReturnsNewSupervisor ==
    call.op = "restart" =>
        call.new /\ call.match /\ call.fresh

\* C26: get_snapshot and get_raw_frame of a supervisor give None (0) while it
\* has read no frame, and give None once its stop() has returned.
C26_NoFrameBeforeFirstAndAfterStop ==
    \A s \in SupIds :
        /\ nFrames[s] = 0 => get_snapshot(s) = 0 /\ get_raw_frame(s) = 0
        /\ stopped[s] => get_snapshot(s) = 0 /\ get_raw_frame(s) = 0

LiveTasks(s) ==
    (IF Live(s) THEN 1 ELSE 0) + (IF OrphanLive(s) THEN 1 ELSE 0)

\* C27: under any interleaving of start() and stop() on one supervisor at
\* most one of the tasks that start() created for it is alive.
C27_AtMostOneLoopTask ==
    \A s \in SupIds : LiveTasks(s) <= 1

\* C28: every subscriber receives the messages of its channel in the order
\* in which their broadcasts were called (the messages are numbered in that
\* order), whichever publishers called them.
C28_DeliveredInPublishOrder ==
    \A w \in Sockets :
        \A i, j \in 1..Len(inbox[w]) : i < j => inbox[w][i] < inbox[w][j]

\* C29: a supervisor gives its frames to broadcast_bytes in the order in which
\* it read them, and the broadcast of a frame has returned before the next
\* frame is read: while a read or an encode is under way no broadcast of
\* this supervisor is, and at most the frame given last is in flight.
C29_PublishedInCaptureOrder ==
    \A s \in SupIds :
        /\ \A i, j \in 1..Len(published[s]) : i < j => published[s][i] < published[s][j]
        /\ \A i \in 1..Len(published[s]) : published[s][i] \in 1..nFrames[s]
        /\ task[s] \in {"reading", "encoding"} => inflight[s] = {}
        /\ inflight[s] # {} =>
               /\ task[s] = "publishing"
               /\ inflight[s] = {published[s][Len(published[s])]}
               /\ published[s][Len(published[s])] = nFrames[s]

C29_Witness ==
    \E s \in SupIds :
        /\ Len(published[s]) >= 2
        /\ nFrames[s] = 3
        /\ task[s] = "encoding"
        /\ published[s][1] = 1

Failures(s) == Len(SelectSeq(log[s], LAMBDA d : d # 0))

\* C30: the task of a supervisor ends only when _running is false, that is
\* after stop(); every failure (open failed, read failed, exception in the
\* cycle) shows in the health (a failed open and an exception are counted
\* in error_count, a failed read and an exception clear connected) and is
\* followed by another connect unless the supervisor is stopped meanwhile.
C30_LoopSurvivesFailures ==
    /\ [][\A s \in SupIds : (Live(s) /\ task'[s] = "done") => ~running[s]]_vars
    /\ [][\A s \in SupIds :
              (task[s] = "reading" /\ connected[s] /\ ~connected'[s] /\ running'[s]) =>
                  task'[s] \in {"connecting", "err_sleep"}]_vars
    /\ [](\A s \in SupIds :
              /\ error_count[s] = Failures(s)
              /\ task[s] = "backoff_sleep" => error_count[s] >= 1
              /\ task[s] = "err_sleep" => ~connected[s] /\ error_count[s] >= 1)
    /\ \A s \in SupIds :
           (task[s] \in {"backoff_sleep", "err_sleep"}) ~>
               (task[s] = "connecting" \/ ~running[s])

C30_Witness ==
    \E s \in SupIds :
        /\ running[s] /\ task[s] = "connecting"
        /\ nFrames[s] >= 1
        /\ error_count[s] = 1 /\ reconnect_count[s] = 1
        /\ log[s] = <<0, INITIAL_BACKOFF>>

(***************************************************************************)
(* Properties of the polling cycle                                         *)
(***************************************************************************)

\* The camera has a document with enabled and object detection, the registry
\* holds a supervisor for it whose health says connected, and that
\* supervisor has a raw frame.
Pollable(c) ==
    /\ cameras[c].exists /\ cameras[c].enabled /\ cameras[c].object_detection
    /\ streams[c] # 0
    /\ connected[streams[c]]
    /\ latest_raw[streams[c]] # 0

\* C31: in a polling cycle the worker awaits the inference for a camera only
\* if the camera is enabled with detection enabled, the registry holds a
\* supervisor for it whose health reports connected, and a raw frame exists;
\* every other camera the for loop reaches is passed over in the same step,
\* which inserts no event and raises nothing.
C31_InferenceOnlyForPollableCameras ==
    [][visited' # visited /\ visited' # {} =>
          /\ \A c \in visited' \ visited :
                 (wtask' = "predict" /\ idx' = c) <=> Pollable(c)
          /\ \A i \in (Len(events) + 1)..Len(events') :
                 events'[i].cam = idx /\ idx \notin visited' \ visited
          /\ errSeen' = errSeen]_vars

C31_Witness ==
    /\ wtask = "predict" /\ idx = 2
    /\ cameras[1].enabled /\ cameras[1].object_detection
    /\ streams[1] # 0 /\ ~connected[streams[1]]
    /\ visited = {1, 2}
    /\ errSeen = FALSE

\* The identity-match sub-step: extract_embedding, match_face and the insert
\* or update of the face document.
IdentitySteps == {"embed", "match", "face_db"}

\* C32: the identity-match sub-step runs only when the primary category is
\* person and detection_config.face_detection of the camera is set; with
\* face_detection off a person detection gives an event of type person that
\* names no face.
C32_IdentityMatchOnlyWhenEnabled ==
    /\ wtask \in IdentitySteps =>
           cur.key = "person" /\ cameras[cur.cam].face_detection
    /\ \A i \in 1..Len(events) :
           (events[i].key = "person" /\ ~cameras[events[i].cam].face_detection) =>
               events[i].type = "person" /\ events[i].face = 0

(***************************************************************************)
(* Properties of the channel map                                           *)
(***************************************************************************)

\* get_all_channels
get_all_channels == DOMAIN connections

\* The publisher p begins a broadcast on the channel ch in this step.
Publishes(p, ch) ==
    /\ ppc[p] = "idle"
    /\ nMsg' = nMsg + 1
    /\ pmsg'[p] = nMsg + 1
    /\ pch'[p] = ch

\* C33: a broadcast on a channel that has no subscriber, never subscribed or
\* all unsubscribed, returns in the same step, delivers nothing and leaves
\* the channel map as it was: it does not create the channel.
C33_PublishWithoutSubscribersChangesNothing ==
    [][\A p \in Pubs, ch \in Channels :
          (Publishes(p, ch) /\ Members(connections, ch) = {}) =>
              /\ connections' = connections
              /\ inbox' = inbox
              /\ ppc'[p] = "idle" /\ completed'[p]
              /\ snapshot'[p] = {} /\ dead'[p] = {}]_vars

C33_Witness ==
    \E p \in Pubs, w \in Sockets :
        /\ completed[p] /\ ppc[p] = "idle" /\ pch[p] # 0
        /\ snapshot[p] = {}
        /\ pch[p] \notin get_all_channels
        /\ get_all_channels # {}
        /\ wsState[w] = "closed" /\ wsChan[w] = pch[p]

\* The route handler of the socket w calls disconnect in this step.
Disconnects(w) == wsState[w] = "open" /\ wsState'[w] = "closed"

\* The route handler of the socket w calls connect in this step.
Connects(w) == wsState[w] = "new" /\ wsState'[w] = "open"

\* C34: connect puts the channel into the listing; a disconnect that removes
\* the last member of a channel takes the channel out of the listing; and a
\* disconnect of a socket that is not a member, or from a channel that does
\* not exist, leaves the channel map as it was.
C34_ChannelLivesFromFirstConnectToLastDisconnect ==
    [][\A w \in Sockets :
          /\ Connects(w) =>
                 /\ wsChan'[w] \in DOMAIN connections'
                 /\ w \in connections'[wsChan'[w]]
          /\ (Disconnects(w) /\ Members(connections, wsChan[w]) = {w}) =>
                 wsChan[w] \notin DOMAIN connections'
          /\ (Disconnects(w) /\ w \notin Members(connections, wsChan[w])) =>
                 connections' = connections]_vars

\* get_channel_count
get_channel_count(ch) == Cardinality(Members(connections, ch))

\* C36: every channel in the channel map, and so in the listing of
\* get_all_channels, has at least one subscriber, also after a broadcast has
\* discarded the sockets whose send failed.
C36_ListedChannelHasSubscriber ==
    \A ch \in get_all_channels : get_channel_count(ch) >= 1

(***************************************************************************)
(* Properties of the receiver's shutdown                                   *)
(***************************************************************************)

\* DeepStreamReceiver.stop has returned.
StopReturned == rstop = "returned"

Connecting(s) == task[s] \in {"connecting", "backoff_sleep"}

\* C37: health.connected is false whenever the supervisor's task is opening
\* the URL or sleeping after a failed open, also when the read loop ended
\* because the capture said it is no longer open, and after stop() has
\* returned.
C37_ConnectedOnlyInReadLoop ==
    \A s \in SupIds :
        /\ Connecting(s) => ~connected[s]
        /\ stopped[s] => ~connected[s]

\* The task awaits the sleep that follows a counted failure.
Sleeping(s) == task[s] \in {"backoff_sleep", "err_sleep"}

C39_CanTrigger ==
    ct_call.cam # 0 =>
        LET c == ct_call.cam
            old == ct_call.before[c]
            new == last_event_time[c]
            was == IF ct_call.key \in DOMAIN old THEN old[ct_call.key] ELSE 0
        IN /\ ct_call.ret <=> (ct_call.t - was >= ct_call.secs)
           /\ ct_call.ret =>
                  /\ DOMAIN new = DOMAIN old \cup {ct_call.key}
                  /\ new[ct_call.key] = ct_call.t
           /\ ~ct_call.ret => new = old
           /\ \A k \in DOMAIN old \ {ct_call.key} :
                  k \in DOMAIN new /\ new[k] = old[k]
           /\ \A d \in CameraIds \ {c} : last_event_time[d] = ct_call.before[d]

C39_Witness ==
    /\ ct_call.cam # 0 /\ ct_call.ret
    /\ ct_call.key \in DOMAIN ct_call.before[ct_call.cam]
    /\ ct_call.t - ct_call.before[ct_call.cam][ct_call.key] = ct_call.secs
    /\ DOMAIN last_event_time[ct_call.cam] = TriggerKeys
    /\ \E d \in CameraIds \ {ct_call.cam} : last_event_time[d] # EmptyTables[d]

(***************************************************************************)
(* Properties of the camera routes                                         *)
(***************************************************************************)

\* C40: when no request to create, update, delete, start or stop a camera is
\* being served, the registry holds a supervisor only for cameras that have
\* a document and are enabled; an update of rtsp_url or fps of a disabled
\* camera leaves none for it.
C40_SupervisorOnlyForEnabledCameras ==
    api.pc = "idle" =>
        \A c \in StreamCams :
            is_streaming(c) => cameras[c].exists /\ cameras[c].enabled

====
